---- MODULE Spec2Model ----
(***************************************************************************)
(* Balancer backends of vr.common: the config-file-over-SSH backend        *)
(* (balancer/base.py, SshBasedBalancer) and the Stingray SOAP backend      *)
(* (balancer/stingray.py, StingrayBalancer) and the composite backend      *)
(* (balancer/chained.py, ChainedBalancer), each driven by one caller that  *)
(* invokes the capability operations one after the other.  Every remote    *)
(* operation (a host read, a host write, a reload, a SOAP call, a call of  *)
(* a child balancer) is one step; a transport failure may strike at any    *)
(* remote operation.                                                       *)
(***************************************************************************)
EXTENDS Naturals, Sequences, FiniteSets, TLC

\* Bounds of the model.
MaxHosts == 3
NumNodes == 2
MaxChildren == 2
MaxTries == 4

\* The default of config.get('GRACE_PERIOD', 2).
DEFAULT_GRACE_PERIOD == 2

Nodes == 1..NumNodes
NodeSets == SUBSET Nodes

\* The pool the caller names, the prefix the Stingray backend is configured
\* with, and the pool names the remote control plane may hold.
Pool == "p1"
pool_prefix == "Auto-"
RemoteNames == {pool_prefix \o Pool, Pool}

VARIABLES
    balancer,   \* the class of the balancer object: "ssh", "stingray" or
                \* "chained"
    config,     \* the optional settings the balancer was constructed with
    hosts,      \* self.hosts: the configured hosts, in order
    hostNodes,  \* per host, the node set its config file holds for the pool
    pools,      \* the Stingray control plane: existing pool name -> node set
    children,   \* self._balancers of the composite: per child, in order,
                \* the pool on its remote: <<>> is no pool, <<S>> the set S
    pc,         \* the caller's position
    op,         \* the capability operation in progress
    arg,        \* its nodes argument
    idx,        \* position of the host loop in self.hosts
    acc,        \* get_nodes' local `nodes`: <<>> is None, <<S>> the set S
    nodeset,    \* the local node collection of the operation in progress
    trace,      \* the remote operations and warnings of the current call
    outcome,    \* "ok" or "raised", once the call has ended
    fault,      \* the message of the fault that ended the call, or "none"
    ret,        \* the value the call returned
    pre,        \* hostNodes and pools when the current call started
    preChildren,\* children when the current call started
    lastAdd,    \* <<N>> when the previous call was a successful add_nodes(N)
                \* that started with no members in the pool, else <<>>
    lastDeletePool, \* whether the previous call was a delete_pool of the
                \* Stingray backend that returned normally
    settings,   \* the names django.conf.settings defines
    firstAttempt,   \* of a caller that repeats a failed add_nodes: <<N, hn>>,
                \* the nodes and the hosts' sets of its first attempt
    retry,      \* a run of models._retry(n, f): its n, its loop variable i,
                \* what the calls of f did, the waits, and how it ended
    theHost,    \* a models.Host, its supervisor's procs, its Redis cache and
                \* the get_proc call in progress
    lock,       \* the flock on one file and the processes calling lock_file
    repo,       \* a repo.Repo: its upstream, its folder and the update call
    staging,    \* one run of SshBasedBalancer._write_file: the files of the
                \* host it writes to and the steps it has taken
    racers,     \* two callers running SshBasedBalancer.add_nodes at once
    rival,      \* what a second caller of the Stingray backend has done
    proc,       \* a models.Proc, its supervisor process and the call on it
    query       \* a models.QueryResult, the pages it reads and its iteration

vars == <<balancer, config, hosts, hostNodes, pools, children, pc, op, arg,
          idx, acc, nodeset, trace, outcome, fault, ret, pre, preChildren,
          lastAdd, lastDeletePool, settings, firstAttempt, retry, theHost,
          lock, repo, staging, racers, rival, proc, query>>

\* What lies outside the balancer objects; no balancer operation changes it.
others ==
    <<settings, firstAttempt, retry, theHost, lock, repo, staging, racers,
      rival, proc, query>>

Range(s) == {s[i] : i \in 1..Len(s)}

\* list(S): a duplicate-free list of the members of S, in an order the
\* build chooses.
ListOf(S) == {s \in [1..Cardinality(S) -> S] : Range(s) = S}

\* One entry of the call's trace: a remote operation, a warning, a method
\* call or a wait, with its target (a host or a pool name) and its nodes.
Event(c, t, n) ==
    [call |-> c, target |-> t, nodes |-> n, secs |-> 0, resp |-> "none"]

\* A call of the Stingray control plane and the fault it answered with.
Remote(c, t, n, f) ==
    [call |-> c, target |-> t, nodes |-> n, secs |-> 0, resp |-> f]

SleepEvent(secs) ==
    [call |-> "sleep", target |-> "", nodes |-> {}, secs |-> secs,
     resp |-> "none"]

Calls(c) == {i \in 1..Len(trace) : trace[i].call = c}

\* The union of the node sets the hosts of hn hold.
HostUnion(hn) == UNION {hn[h] : h \in DOMAIN hn}

(***************************************************************************)
(* Initial states: a balancer object of either class, with the remote      *)
(* state it finds.  Host config files and the control plane are shared,    *)
(* externally written resources, so any membership may be found.           *)
(***************************************************************************)
HostLists == {[i \in 1..n |-> i] : n \in 0..MaxHosts}

PoolStates == UNION {[D -> NodeSets] : D \in SUBSET RemoteNames}

\* The Stingray configurations: GRACE_PERIOD left out, or set to no wait or
\* to a longer one.
StingrayConfigs == {<<>>} \cup {[GRACE_PERIOD |-> g] : g \in {0, 5}}

\* What a child of the composite holds for the pool: no pool, or its members.
ChildStates == {<<>>} \cup {<<S>> : S \in NodeSets}

\* self._balancers: one balancer for every entry of config['BALANCERS'].
ChildLists == UNION {[1..n -> ChildStates] : n \in 0..MaxChildren}

\* The settings base.py reads: settings.DEPLOY_USER, settings.DEPLOY_PASSWORD.
DeploySettings == {"DEPLOY_USER", "DEPLOY_PASSWORD"}

\* The surroundings of a balancer at work.
InitOthers ==
    /\ settings = DeploySettings
    /\ firstAttempt = <<>>
    /\ retry = <<>>
    /\ theHost = <<>>
    /\ lock = <<>>
    /\ repo = <<>>
    /\ staging = <<>>
    /\ racers = <<>>
    /\ rival = <<>>
    /\ proc = <<>>
    /\ query = <<>>

InitCaller ==
    /\ pc = "idle"
    /\ op = "none"
    /\ arg = {}
    /\ idx = 0
    /\ acc = <<>>
    /\ nodeset = {}
    /\ trace = <<>>
    /\ outcome = "none"
    /\ fault = "none"
    /\ ret = <<>>
    /\ lastAdd = <<>>
    /\ lastDeletePool = FALSE

Init ==
    /\ balancer \in {"ssh", "stingray", "chained"}
    /\ config \in IF balancer = "stingray" THEN StingrayConfigs ELSE {<<>>}
    /\ hosts \in IF balancer = "ssh" THEN HostLists ELSE {<<>>}
    /\ hostNodes \in [Range(hosts) -> NodeSets]
    /\ pools \in IF balancer = "stingray" THEN PoolStates ELSE {<<>>}
    /\ children \in IF balancer = "chained" THEN ChildLists ELSE {<<>>}
    /\ pre = <<hostNodes, pools>>
    /\ preChildren = children
    /\ InitCaller
    /\ InitOthers

(***************************************************************************)
(* SshBasedBalancer                                                        *)
(***************************************************************************)

\* Mutant: a mismatch is warned about and the first host's set is kept.
GetNodesMerge_keeps_first(nodes, host_nodes) ==
    IF nodes = <<>>
    THEN [nodes |-> <<host_nodes>>, warn |-> FALSE]
    ELSE [nodes |-> nodes, warn |-> host_nodes # nodes[1]]

\* Mutant: only a host that reports a node not seen before is a mismatch.
GetNodesMerge_new_nodes_only(nodes, host_nodes) ==
    IF nodes = <<>>
    THEN [nodes |-> <<host_nodes>>, warn |-> FALSE]
    ELSE IF ~(host_nodes \subseteq nodes[1])
         THEN [nodes |-> <<nodes[1] \cup host_nodes>>, warn |-> TRUE]
         ELSE [nodes |-> nodes, warn |-> FALSE]

\* One iteration of get_nodes' host loop: the new value of `nodes` and
\* whether warnings.warn is called.
GetNodesMerge(nodes, host_nodes) ==
    IF nodes = <<>>
    THEN [nodes |-> <<host_nodes>>, warn |-> FALSE]
    ELSE IF host_nodes # nodes[1]
         THEN [nodes |-> <<nodes[1] \cup host_nodes>>, warn |-> TRUE]
         ELSE [nodes |-> nodes, warn |-> FALSE]

\* get_nodes' result: `if nodes: return list(nodes)`, else [].
GetNodesResult(nodes) ==
    IF nodes # <<>> /\ nodes[1] # {} THEN ListOf(nodes[1]) ELSE {<<>>}

\* Mutant: the nodes given are left out of the set written.
AddNodeset_forgets_new(existing, nodes) == existing

\* Mutant: the members found are left out of the set written.
AddNodeset_only_new(existing, nodes) == nodes

\* add_nodes: nodeset = set(self.get_nodes(pool)).union(nodes).
AddNodeset(existing, nodes) == existing \cup nodes

\* Mutant: the host's new set is computed from the cross-host union.
DeleteCorrect_from_union(current, nodes) == HostUnion(hostNodes) \ nodes

\* _delete_host_nodes: correct = current.difference(nodes).
DeleteCorrect(current, nodes) == current \ nodes

\* Mutant: delete_nodes ends with self.delete_pool_if_empty(pool).
delete_nodes_tail_cleanup == <<Event("delete_pool_if_empty", Pool, {})>>

\* The calls delete_nodes makes once its host loop has ended.
delete_nodes_tail == <<>>

\* The caller invokes an operation on the SSH backend: get_nodes and
\* add_nodes start by reading the hosts, delete_nodes by its host loop.
Ssh_call(o, N) ==
    /\ balancer = "ssh"
    /\ pc = "idle"
    /\ op' = o
    /\ arg' = N
    /\ pre' = <<hostNodes, pools>>
    /\ trace' = <<>>
    /\ outcome' = "none"
    /\ fault' = "none"
    /\ ret' = <<>>
    /\ acc' = <<>>
    /\ nodeset' = {}
    /\ idx' = 1
    /\ pc' = IF o = "delete_nodes" THEN "del_read" ELSE "get"
    /\ UNCHANGED <<others, balancer, config, children, preChildren,
                   lastDeletePool, hosts, hostNodes, pools, lastAdd>>

Ssh_get_nodes == Ssh_call("get_nodes", {})

Ssh_add_nodes == \E N \in NodeSets : Ssh_call("add_nodes", N)

Ssh_delete_nodes == \E N \in NodeSets : Ssh_call("delete_nodes", N)

\* get_nodes, one host: host_nodes = self._get_host_nodes(host, pool), then
\* the comparison with what the hosts before it reported.
Ssh_get_host_nodes ==
    /\ balancer = "ssh"
    /\ pc = "get"
    /\ idx <= Len(hosts)
    /\ LET host == hosts[idx]
           host_nodes == hostNodes[host]
           m == GetNodesMerge(acc, host_nodes)
           read == Event("get_host_nodes", host, host_nodes)
       IN /\ acc' = m.nodes
          /\ trace' = IF m.warn
                      THEN trace \o <<read, Event("warn", host, host_nodes)>>
                      ELSE Append(trace, read)
    /\ idx' = idx + 1
    /\ UNCHANGED <<others, balancer, config, children, preChildren,
                   lastDeletePool, hosts, hostNodes, pools, pc, op, arg,
                   nodeset, outcome, fault, ret, pre, lastAdd>>

\* get_nodes returns; inside add_nodes the result goes into
\* nodeset = set(self.get_nodes(pool)).union(nodes) and the host loop starts.
Ssh_get_nodes_return ==
    /\ balancer = "ssh"
    /\ pc = "get"
    /\ idx > Len(hosts)
    /\ \E l \in GetNodesResult(acc) :
          IF op = "add_nodes"
          THEN /\ nodeset' = AddNodeset(Range(l), arg)
               /\ pc' = "add_set"
               /\ idx' = 1
               /\ UNCHANGED <<outcome, ret>>
          ELSE /\ ret' = l
               /\ pc' = "done"
               /\ outcome' = "ok"
               /\ UNCHANGED <<nodeset, idx>>
    /\ UNCHANGED <<others, balancer, config, children, preChildren,
                   lastDeletePool, hosts, hostNodes, pools, op, arg, acc,
                   trace, fault, pre, lastAdd>>

\* add_nodes, one host: self._set_host_nodes(host, pool, list(nodeset)).
Ssh_add_set_host_nodes ==
    /\ balancer = "ssh"
    /\ pc = "add_set"
    /\ idx <= Len(hosts)
    /\ \E l \in ListOf(nodeset) :
          /\ hostNodes' = [hostNodes EXCEPT ![hosts[idx]] = Range(l)]
          /\ trace' = Append(trace,
                             Event("set_host_nodes", hosts[idx], Range(l)))
    /\ pc' = "add_reload"
    /\ UNCHANGED <<others, balancer, config, children, preChildren,
                   lastDeletePool, hosts, pools, op, arg, idx, acc, nodeset,
                   outcome, fault, ret, pre, lastAdd>>

\* _delete_host_nodes, first half: current = self._get_host_nodes(host, pool)
\* and correct = current.difference(nodes).
Ssh_delete_host_nodes_read ==
    /\ balancer = "ssh"
    /\ pc = "del_read"
    /\ idx <= Len(hosts)
    /\ LET current == hostNodes[hosts[idx]]
       IN /\ nodeset' = DeleteCorrect(current, arg)
          /\ trace' = Append(trace,
                             Event("get_host_nodes", hosts[idx], current))
    /\ pc' = "del_write"
    /\ UNCHANGED <<others, balancer, config, children, preChildren,
                   lastDeletePool, hosts, hostNodes, pools, op, arg, idx, acc,
                   outcome, fault, ret, pre, lastAdd>>

\* _delete_host_nodes, second half:
\* self._set_host_nodes(host, pool, list(correct)).
Ssh_delete_host_nodes_write ==
    /\ balancer = "ssh"
    /\ pc = "del_write"
    /\ \E l \in ListOf(nodeset) :
          /\ hostNodes' = [hostNodes EXCEPT ![hosts[idx]] = Range(l)]
          /\ trace' = Append(trace,
                             Event("set_host_nodes", hosts[idx], Range(l)))
    /\ pc' = "del_reload"
    /\ UNCHANGED <<others, balancer, config, children, preChildren,
                   lastDeletePool, hosts, pools, op, arg, idx, acc, nodeset,
                   outcome, fault, ret, pre, lastAdd>>

\* Mutant: the loop moves to the next host without the reload.
Ssh_reload_config_skipped ==
    /\ balancer = "ssh"
    /\ pc \in {"add_reload", "del_reload"}
    /\ idx' = idx + 1
    /\ pc' = IF pc = "add_reload" THEN "add_set" ELSE "del_read"
    /\ UNCHANGED <<others, balancer, config, children, preChildren,
                   lastDeletePool, hosts, hostNodes, pools, op, arg, acc,
                   nodeset, trace, outcome, fault, ret, pre, lastAdd>>

\* self._reload_config(host), then the loop moves to the next host.
Ssh_reload_config ==
    /\ balancer = "ssh"
    /\ pc \in {"add_reload", "del_reload"}
    /\ trace' = Append(trace, Event("reload_config", hosts[idx], {}))
    /\ idx' = idx + 1
    /\ pc' = IF pc = "add_reload" THEN "add_set" ELSE "del_read"
    /\ UNCHANGED <<others, balancer, config, children, preChildren,
                   lastDeletePool, hosts, hostNodes, pools, op, arg, acc,
                   nodeset, outcome, fault, ret, pre, lastAdd>>

\* The host loop of add_nodes or delete_nodes has ended: the method returns.
Ssh_loop_end ==
    /\ balancer = "ssh"
    /\ pc \in {"add_set", "del_read"}
    /\ idx > Len(hosts)
    /\ trace' = IF pc = "del_read" THEN trace \o delete_nodes_tail ELSE trace
    /\ pc' = "done"
    /\ outcome' = "ok"
    /\ UNCHANGED <<others, balancer, config, children, preChildren,
                   lastDeletePool, hosts, hostNodes, pools, op, arg, idx, acc,
                   nodeset, fault, ret, pre, lastAdd>>

\* Mutant: the exception handler puts back what the hosts held.
Ssh_transport_error_rollback ==
    /\ balancer = "ssh"
    /\ \/ pc \in {"get", "add_set", "del_read"} /\ idx <= Len(hosts)
       \/ pc \in {"del_write", "add_reload", "del_reload"}
    /\ pc' = "done"
    /\ outcome' = "raised"
    /\ fault' = "transport"
    /\ hostNodes' = pre[1]
    /\ UNCHANGED <<others, balancer, config, children, preChildren,
                   lastDeletePool, hosts, pools, op, arg, idx, acc, nodeset,
                   trace, ret, pre, lastAdd>>

\* A connection or a file transfer fails, or a command cannot be sent, at
\* the host the call has reached: the exception leaves the method.
Ssh_transport_error ==
    /\ balancer = "ssh"
    /\ \/ pc \in {"get", "add_set", "del_read"} /\ idx <= Len(hosts)
       \/ pc \in {"del_write", "add_reload", "del_reload"}
    /\ pc' = "done"
    /\ outcome' = "raised"
    /\ fault' = "transport"
    /\ UNCHANGED <<others, balancer, config, children, preChildren,
                   lastDeletePool, hosts, hostNodes, pools, op, arg, idx, acc,
                   nodeset, trace, ret, pre, lastAdd>>

\* Whether the pool had no members in the remote state s = <<hostNodes, pools>>.
NoMembers(s) ==
    IF balancer = "ssh"
    THEN \A h \in DOMAIN s[1] : s[1][h] = {}
    ELSE (pool_prefix \o Pool) \in DOMAIN s[2] =>
             s[2][pool_prefix \o Pool] = {}

\* The call has ended and the caller goes on.
Return ==
    /\ pc = "done"
    /\ pc' = "idle"
    /\ lastAdd' = IF /\ balancer \in {"ssh", "stingray"}
                     /\ op = "add_nodes" /\ outcome = "ok" /\ NoMembers(pre)
                  THEN <<arg>>
                  ELSE <<>>
    /\ op' = "none"
    /\ arg' = {}
    /\ idx' = 0
    /\ acc' = <<>>
    /\ nodeset' = {}
    /\ trace' = <<>>
    /\ outcome' = "none"
    /\ fault' = "none"
    /\ ret' = <<>>
    /\ pre' = <<hostNodes, pools>>
    /\ preChildren' = children
    /\ lastDeletePool' = (balancer = "stingray" /\ op = "delete_pool"
                             /\ outcome = "ok")
    /\ UNCHANGED <<others, balancer, config, children, hosts, hostNodes,
                   pools>>

SshNext ==
    \/ Ssh_get_nodes
    \/ Ssh_add_nodes
    \/ Ssh_delete_nodes
    \/ Ssh_get_host_nodes
    \/ Ssh_get_nodes_return
    \/ Ssh_add_set_host_nodes
    \/ Ssh_delete_host_nodes_read
    \/ Ssh_delete_host_nodes_write
    \/ Ssh_reload_config
    \/ Ssh_loop_end
    \/ Ssh_transport_error

(***************************************************************************)
(* StingrayBalancer                                                        *)
(***************************************************************************)

\* self.grace_period = config.get('GRACE_PERIOD', 2)
grace_period ==
    IF "GRACE_PERIOD" \in DOMAIN config
    THEN config["GRACE_PERIOD"]
    ELSE DEFAULT_GRACE_PERIOD

\* Mutant: the remote calls carry the caller's pool name as it is.
Prefixed_missing(pool) == pool

\* The name every remote call carries: self.pool_prefix + pool.
Prefixed(pool) == pool_prefix \o pool

\* What the control plane may answer to a call that names an existing pool
\* (addNodes, disableNodes, removeNodes, getNodes, deletePool): "none" when
\* it serves the call, the 'Unknown pool' WebFault when it has no such pool,
\* and at any time another WebFault or a transport failure.
Respond(name) ==
    IF name \in DOMAIN pools
    THEN {"none", "WebFault", "transport"}
    ELSE {"Unknown pool", "WebFault", "transport"}

\* What it may answer to addPool: a pool that exists cannot be created.
RespondCreate(name) ==
    IF name \in DOMAIN pools
    THEN {"WebFault", "transport"}
    ELSE {"none", "WebFault", "transport"}

\* `except WebFault as wf: if 'Unknown pool' in wf.message`: a transport
\* failure is no WebFault and is never caught.
UnknownPool(f) == f = "Unknown pool"

\* Mutant: any fault of addNodes leads to addPool.
AddNodesOnFault_any(f) == "add_pool"

\* add_nodes' except clause: create the pool, or re-raise.
AddNodesOnFault(f) == IF UnknownPool(f) THEN "add_pool" ELSE "raise"

\* Mutant: delete_nodes re-raises every fault of disableNodes and removeNodes.
DeleteNodesOnFault_reraise(f) == "raise"

\* Mutant: delete_nodes passes over every fault.
DeleteNodesOnFault_swallow(f) == "pass"

\* delete_nodes' except clause around disableNodes, sleep and removeNodes.
DeleteNodesOnFault(f) == IF UnknownPool(f) THEN "pass" ELSE "raise"

\* Mutant: get_nodes re-raises every fault.
GetNodesOnFault_reraise(f) == "raise"

\* get_nodes' except clause: an unknown pool has no nodes.
GetNodesOnFault(f) == IF UnknownPool(f) THEN "empty" ELSE "raise"

\* Mutant: delete_pool re-raises every fault.
DeletePoolOnFault_reraise(f) == "raise"

\* Mutant: delete_pool passes on every fault.
DeletePoolOnFault_swallow(f) == "pass"

\* delete_pool's except clause.
DeletePoolOnFault(f) == IF UnknownPool(f) THEN "pass" ELSE "raise"

\* Mutant: the request is not narrowed to the members.
NodesToDelete_unfiltered(existing_nodes, nodes) == nodes

\* delete_nodes narrows the request: existing_nodes.intersection(nodes).
NodesToDelete(existing_nodes, nodes) == existing_nodes \cap nodes

\* Mutant: delete_pool_if_empty deletes the pool whatever it holds.
PoolIsEmpty_always(nodes) == TRUE

\* delete_pool_if_empty's test `if not nodes` on the list get_nodes returned.
PoolIsEmpty(nodes) == nodes = <<>>

\* Mutant: the default never finds the pool empty.
DefaultPoolIsEmpty_never(nodes) == FALSE

\* Balancer.delete_pool_if_empty's test `if not nodes`, the default that
\* StingrayBalancer overrides.
DefaultPoolIsEmpty(nodes) == Len(nodes) = 0

\* Where each operation of the Stingray backend starts.
Sr_entry(o) ==
    CASE o = "add_nodes" -> "addNodes"
      [] o = "delete_nodes" -> "del_getNodes"
      [] o = "get_nodes" -> "getNodes"
      [] o = "delete_pool" -> "deletePool"
      [] o = "delete_pool_if_empty" -> "cleanup_getNodes"
      [] o = "Balancer.delete_pool_if_empty" -> "cleanup_getNodes"

\* The caller invokes an operation on the Stingray backend.
Sr_call(o, N) ==
    /\ balancer = "stingray"
    /\ pc = "idle"
    /\ op' = o
    /\ arg' = N
    /\ pre' = <<hostNodes, pools>>
    /\ trace' = IF o \in {"delete_pool_if_empty",
                          "Balancer.delete_pool_if_empty"}
                THEN <<Event("delete_pool_if_empty", Pool, {})>>
                ELSE <<>>
    /\ outcome' = "none"
    /\ fault' = "none"
    /\ ret' = <<>>
    /\ acc' = <<>>
    /\ nodeset' = {}
    /\ idx' = 0
    /\ pc' = Sr_entry(o)
    /\ UNCHANGED <<others, balancer, config, children, preChildren,
                   lastDeletePool, hosts, hostNodes, pools, lastAdd>>

Sr_add_nodes == \E N \in NodeSets : Sr_call("add_nodes", N)

Sr_delete_nodes == \E N \in NodeSets : Sr_call("delete_nodes", N)

Sr_get_nodes == Sr_call("get_nodes", {})

Sr_delete_pool == Sr_call("delete_pool", {})

Sr_delete_pool_if_empty == Sr_call("delete_pool_if_empty", {})

\* The default of the base class, run on a Stingray balancer:
\* Balancer.delete_pool_if_empty(self, pool).
Sr_default_delete_pool_if_empty ==
    Sr_call("Balancer.delete_pool_if_empty", {})

\* The call ends: normally, or with the fault f leaving the method.
Sr_end(f) ==
    /\ pc' = "done"
    /\ outcome' = IF f = "none" THEN "ok" ELSE "raised"
    /\ fault' = f

\* add_nodes: self._call_node_func(self.client.service.addNodes, pool, nodes).
Sr_addNodes ==
    /\ balancer = "stingray"
    /\ pc = "addNodes"
    /\ \E f \in Respond(Prefixed(Pool)) :
          /\ trace' = Append(trace, Remote("addNodes", Prefixed(Pool), arg, f))
          /\ IF f = "none"
             THEN /\ pools' = [pools EXCEPT ![Prefixed(Pool)] = @ \cup arg]
                  /\ Sr_end("none")
             ELSE /\ UNCHANGED pools
                  /\ IF AddNodesOnFault(f) = "add_pool"
                     THEN /\ pc' = "addPool"
                          /\ UNCHANGED <<outcome, fault>>
                     ELSE Sr_end(f)
    /\ UNCHANGED <<others, balancer, config, children, preChildren,
                   lastDeletePool, hosts, hostNodes, op, arg, idx, acc,
                   nodeset, ret, pre, lastAdd>>

\* Mutant: when addPool is refused, add_nodes tries addNodes again.
Sr_addPool_retries ==
    /\ balancer = "stingray"
    /\ pc = "addPool"
    /\ \E f \in RespondCreate(Prefixed(Pool)) :
          /\ trace' = Append(trace, Remote("addPool", Prefixed(Pool), arg, f))
          /\ pools' = IF f = "none"
                      THEN [n \in DOMAIN pools \cup {Prefixed(Pool)} |->
                               IF n = Prefixed(Pool) THEN arg ELSE pools[n]]
                      ELSE pools
          /\ IF f = "none"
             THEN Sr_end(f)
             ELSE /\ pc' = "addNodes"
                  /\ UNCHANGED <<outcome, fault>>
    /\ UNCHANGED <<others, balancer, config, children, preChildren,
                   lastDeletePool, hosts, hostNodes, op, arg, idx, acc,
                   nodeset, ret, pre, lastAdd>>

\* add_pool: self._call_node_func(self.client.service.addPool, pool, nodes).
Sr_addPool ==
    /\ balancer = "stingray"
    /\ pc = "addPool"
    /\ \E f \in RespondCreate(Prefixed(Pool)) :
          /\ trace' = Append(trace, Remote("addPool", Prefixed(Pool), arg, f))
          /\ pools' = IF f = "none"
                      THEN [n \in DOMAIN pools \cup {Prefixed(Pool)} |->
                               IF n = Prefixed(Pool) THEN arg ELSE pools[n]]
                      ELSE pools
          /\ Sr_end(f)
    /\ UNCHANGED <<others, balancer, config, children, preChildren,
                   lastDeletePool, hosts, hostNodes, op, arg, idx, acc,
                   nodeset, ret, pre, lastAdd>>

\* get_nodes: self.client.service.getNodes([self.pool_prefix + pool])[0],
\* called by the caller, at the start of delete_nodes, or by
\* delete_pool_if_empty; then what the calling method does with the result.
Sr_getNodes ==
    /\ balancer = "stingray"
    /\ pc \in {"getNodes", "del_getNodes", "cleanup_getNodes"}
    /\ \E f \in Respond(Prefixed(Pool)) :
        /\ trace' = Append(trace, Remote("getNodes", Prefixed(Pool), {}, f))
        /\ IF f # "none" /\ GetNodesOnFault(f) = "raise"
           THEN /\ Sr_end(f)
                /\ UNCHANGED <<nodeset, ret>>
           ELSE \E l \in IF f = "none" THEN ListOf(pools[Prefixed(Pool)])
                                      ELSE {<<>>} :
                  CASE pc = "getNodes" ->
                         /\ ret' = l
                         /\ Sr_end("none")
                         /\ UNCHANGED nodeset
                    [] pc = "del_getNodes" ->
                         /\ nodeset' = NodesToDelete(Range(l), arg)
                         /\ IF nodeset' = {}
                            THEN Sr_end("none")
                            ELSE /\ pc' = "disableNodes"
                                 /\ UNCHANGED <<outcome, fault>>
                         /\ UNCHANGED ret
                    [] pc = "cleanup_getNodes" ->
                         /\ IF IF op = "Balancer.delete_pool_if_empty"
                               THEN DefaultPoolIsEmpty(l)
                               ELSE PoolIsEmpty(l)
                            THEN /\ pc' = "deletePool"
                                 /\ UNCHANGED <<outcome, fault>>
                            ELSE Sr_end("none")
                         /\ UNCHANGED <<nodeset, ret>>
    /\ UNCHANGED <<others, balancer, config, children, preChildren,
                   lastDeletePool, hosts, hostNodes, pools, op, arg, idx, acc,
                   pre, lastAdd>>

\* delete_nodes leaves its try block for `self.delete_pool_if_empty(pool)`.
Sr_cleanup(tr) ==
    /\ trace' = Append(tr, Event("delete_pool_if_empty", Pool, {}))
    /\ pc' = "cleanup_getNodes"
    /\ UNCHANGED <<outcome, fault>>

\* delete_nodes: self._call_node_func(self.client.service.disableNodes, ...).
Sr_disableNodes ==
    /\ balancer = "stingray"
    /\ pc = "disableNodes"
    /\ \E f \in Respond(Prefixed(Pool)) :
          LET tr == Append(trace,
                           Remote("disableNodes", Prefixed(Pool), nodeset, f))
          IN IF f = "none"
             THEN /\ trace' = tr
                  /\ pc' = "sleep"
                  /\ UNCHANGED <<outcome, fault>>
             ELSE IF DeleteNodesOnFault(f) = "pass"
                  THEN Sr_cleanup(tr)
                  ELSE /\ trace' = tr
                       /\ Sr_end(f)
    /\ UNCHANGED <<others, balancer, config, children, preChildren,
                   lastDeletePool, hosts, hostNodes, pools, op, arg, idx, acc,
                   nodeset, ret, pre, lastAdd>>

\* Mutant: removeNodes follows disableNodes without the wait.
Sr_sleep_skipped ==
    /\ balancer = "stingray"
    /\ pc = "sleep"
    /\ pc' = "removeNodes"
    /\ UNCHANGED <<others, balancer, config, children, preChildren,
                   lastDeletePool, hosts, hostNodes, pools, op, arg, idx, acc,
                   nodeset, trace, outcome, fault, ret, pre, lastAdd>>

\* delete_nodes: time.sleep(self.grace_period).
Sr_sleep ==
    /\ balancer = "stingray"
    /\ pc = "sleep"
    /\ trace' = Append(trace, SleepEvent(grace_period))
    /\ pc' = "removeNodes"
    /\ UNCHANGED <<others, balancer, config, children, preChildren,
                   lastDeletePool, hosts, hostNodes, pools, op, arg, idx, acc,
                   nodeset, outcome, fault, ret, pre, lastAdd>>

\* delete_nodes: self._call_node_func(self.client.service.removeNodes, ...).
Sr_removeNodes ==
    /\ balancer = "stingray"
    /\ pc = "removeNodes"
    /\ \E f \in Respond(Prefixed(Pool)) :
          LET tr == Append(trace,
                           Remote("removeNodes", Prefixed(Pool), nodeset, f))
          IN IF f = "none"
             THEN /\ pools' = [pools EXCEPT ![Prefixed(Pool)] = @ \ nodeset]
                  /\ Sr_cleanup(tr)
             ELSE /\ UNCHANGED pools
                  /\ IF DeleteNodesOnFault(f) = "pass"
                     THEN Sr_cleanup(tr)
                     ELSE /\ trace' = tr
                          /\ Sr_end(f)
    /\ UNCHANGED <<others, balancer, config, children, preChildren,
                   lastDeletePool, hosts, hostNodes, op, arg, idx, acc,
                   nodeset, ret, pre, lastAdd>>

\* delete_pool: self.client.service.deletePool([self.pool_prefix + pool]).
Sr_deletePool ==
    /\ balancer = "stingray"
    /\ pc = "deletePool"
    /\ \E f \in Respond(Prefixed(Pool)) :
          /\ trace' = Append(trace, Remote("deletePool", Prefixed(Pool), {}, f))
          /\ IF f = "none"
             THEN /\ pools' = [n \in DOMAIN pools \ {Prefixed(Pool)} |->
                                  pools[n]]
                  /\ Sr_end("none")
             ELSE /\ UNCHANGED pools
                  /\ IF DeletePoolOnFault(f) = "pass"
                     THEN Sr_end("none")
                     ELSE Sr_end(f)
    /\ UNCHANGED <<others, balancer, config, children, preChildren,
                   lastDeletePool, hosts, hostNodes, op, arg, idx, acc,
                   nodeset, ret, pre, lastAdd>>

StingrayNext ==
    \/ Sr_add_nodes
    \/ Sr_delete_nodes
    \/ Sr_get_nodes
    \/ Sr_delete_pool
    \/ Sr_delete_pool_if_empty
    \/ Sr_default_delete_pool_if_empty
    \/ Sr_addNodes
    \/ Sr_addPool
    \/ Sr_getNodes
    \/ Sr_disableNodes
    \/ Sr_sleep
    \/ Sr_removeNodes
    \/ Sr_deletePool

(***************************************************************************)
(* ChainedBalancer.  Its children are balancers that behave as the         *)
(* StingrayBalancer of its docstring does as a whole: add_nodes creates    *)
(* the pool when needed, delete_nodes deletes the pool it has emptied,     *)
(* and a call that fails raises and leaves the child's pool as it was.     *)
(***************************************************************************)

\* The members a child reports for the pool.
ChildMembers(c) == IF c = <<>> THEN {} ELSE c[1]

\* The nodes among the arguments of a child call: (pool_name, nodes) for
\* add_nodes and delete_nodes, (pool, ) for delete_pool and get_nodes.
ArgNodes(args) == IF Len(args) >= 2 THEN args[2] ELSE {}

\* A child's pool after it has served the method.
ChildApply(method, c, args) ==
    CASE method = "add_nodes" -> <<ChildMembers(c) \cup ArgNodes(args)>>
      [] method = "delete_nodes" ->
             IF ChildMembers(c) \cap ArgNodes(args) = {}
             THEN c
             ELSE IF ChildMembers(c) \subseteq ArgNodes(args)
                  THEN <<>>
                  ELSE <<ChildMembers(c) \ ArgNodes(args)>>
      [] method = "delete_pool" -> <<>>
      [] OTHER -> c

\* What a child may do with a call: serve it, or raise.
ChildAnswers == {"none", "WebFault", "transport"}

\* One entry of the composite's trace: the method called on the child at
\* position b of self._balancers, its arguments, and how the child answered.
ChildCall(method, b, args, f) ==
    [call |-> method, target |-> b, args |-> args, nodes |-> ArgNodes(args),
     secs |-> 0, resp |-> f]

\* The argument tuple add_nodes, delete_nodes and delete_pool hand to
\* _foreach_balancer.
MethodArgs(o, N) == IF o = "delete_pool" THEN <<Pool>> ELSE <<Pool, N>>

\* Mutant: _foreach_balancer calls the children without the arguments.
CallArgs_dropped(args) == <<>>

\* _foreach_balancer: args = args if args else ().
CallArgs(args) == IF args # <<>> THEN args ELSE <<>>

\* Mutant: get_nodes keeps the list of the last child only.
ExtendNodes_last(nodes, l) == l

\* get_nodes: nodes.extend(b.get_nodes(pool_name)).
ExtendNodes(nodes, l) == nodes \o l

\* sorted(S) for a set S of nodes.
Sorted(S) ==
    CHOOSE s \in ListOf(S) : \A i \in 1..(Len(s) - 1) : s[i] < s[i + 1]

\* get_nodes: return sorted(set(nodes)).
ChainedGetNodesResult(nodes) == Sorted(Range(nodes))

\* The caller invokes an operation on the composite.
Ch_call(o, N) ==
    /\ balancer = "chained"
    /\ pc = "idle"
    /\ op' = o
    /\ arg' = N
    /\ preChildren' = children
    /\ trace' = <<>>
    /\ outcome' = "none"
    /\ fault' = "none"
    /\ ret' = <<>>
    /\ acc' = <<>>
    /\ nodeset' = {}
    /\ idx' = 1
    /\ pc' = IF o = "get_nodes" THEN "ch_get" ELSE "ch_foreach"
    /\ UNCHANGED <<others, balancer, config, children, lastDeletePool, hosts,
                   hostNodes, pools, pre, lastAdd>>

Ch_add_nodes == \E N \in NodeSets : Ch_call("add_nodes", N)

Ch_delete_nodes == \E N \in NodeSets : Ch_call("delete_nodes", N)

Ch_get_nodes == Ch_call("get_nodes", {})

Ch_delete_pool == Ch_call("delete_pool", {})

\* The child at position idx has served the call: the loop moves on.
Ch_served(args) ==
    /\ children' = [children EXCEPT ![idx] = ChildApply(op, @, args)]
    /\ idx' = idx + 1
    /\ UNCHANGED <<pc, outcome, fault>>

\* The child at position idx has raised f: nothing catches it, and it
\* leaves the composite's method.
Ch_raised(f) ==
    /\ pc' = "done"
    /\ outcome' = "raised"
    /\ fault' = f
    /\ UNCHANGED <<children, idx>>

\* Mutant: the loop goes on to the next child when a child has raised.
Ch_foreach_balancer_continues ==
    /\ balancer = "chained"
    /\ pc = "ch_foreach"
    /\ idx <= Len(children)
    /\ LET args == CallArgs(MethodArgs(op, arg))
       IN \E f \in ChildAnswers :
             /\ trace' = Append(trace, ChildCall(op, idx, args, f))
             /\ IF f = "none"
                THEN Ch_served(args)
                ELSE /\ idx' = idx + 1
                     /\ fault' = IF fault = "none" THEN f ELSE fault
                     /\ UNCHANGED <<children, pc, outcome>>
    /\ UNCHANGED <<others, balancer, config, preChildren, lastDeletePool,
                   hosts, hostNodes, pools, op, arg, acc, nodeset, ret, pre,
                   lastAdd>>

\* Mutant: when a child has raised, the children before it are put back.
Ch_foreach_balancer_rollback ==
    /\ balancer = "chained"
    /\ pc = "ch_foreach"
    /\ idx <= Len(children)
    /\ LET args == CallArgs(MethodArgs(op, arg))
       IN \E f \in ChildAnswers :
             /\ trace' = Append(trace, ChildCall(op, idx, args, f))
             /\ IF f = "none"
                THEN Ch_served(args)
                ELSE /\ children' = preChildren
                     /\ pc' = "done"
                     /\ outcome' = "raised"
                     /\ fault' = f
                     /\ UNCHANGED idx
    /\ UNCHANGED <<others, balancer, config, preChildren, lastDeletePool,
                   hosts, hostNodes, pools, op, arg, acc, nodeset, ret, pre,
                   lastAdd>>

\* _foreach_balancer, one iteration: getattr(b, method)(*args, **kwargs).
Ch_foreach_balancer ==
    /\ balancer = "chained"
    /\ pc = "ch_foreach"
    /\ idx <= Len(children)
    /\ LET args == CallArgs(MethodArgs(op, arg))
       IN \E f \in ChildAnswers :
             /\ trace' = Append(trace, ChildCall(op, idx, args, f))
             /\ IF f = "none" THEN Ch_served(args) ELSE Ch_raised(f)
    /\ UNCHANGED <<others, balancer, config, preChildren, lastDeletePool,
                   hosts, hostNodes, pools, op, arg, acc, nodeset, ret, pre,
                   lastAdd>>

\* _foreach_balancer's loop has ended: the method returns.
Ch_foreach_end ==
    /\ balancer = "chained"
    /\ pc = "ch_foreach"
    /\ idx > Len(children)
    /\ pc' = "done"
    /\ outcome' = "ok"
    /\ UNCHANGED <<others, balancer, config, children, preChildren,
                   lastDeletePool, hosts, hostNodes, pools, op, arg, idx, acc,
                   nodeset, trace, fault, ret, pre, lastAdd>>

\* get_nodes, one iteration: nodes.extend(b.get_nodes(pool_name)).
Ch_get_nodes_child ==
    /\ balancer = "chained"
    /\ pc = "ch_get"
    /\ idx <= Len(children)
    /\ \E f \in ChildAnswers :
          /\ trace' = Append(trace, ChildCall("get_nodes", idx, <<Pool>>, f))
          /\ IF f = "none"
             THEN /\ \E l \in ListOf(ChildMembers(children[idx])) :
                        acc' = ExtendNodes(acc, l)
                  /\ idx' = idx + 1
                  /\ UNCHANGED <<pc, outcome, fault>>
             ELSE /\ pc' = "done"
                  /\ outcome' = "raised"
                  /\ fault' = f
                  /\ UNCHANGED <<acc, idx>>
    /\ UNCHANGED <<others, balancer, config, children, preChildren,
                   lastDeletePool, hosts, hostNodes, pools, op, arg, nodeset,
                   ret, pre, lastAdd>>

\* get_nodes returns sorted(set(nodes)).
Ch_get_nodes_return ==
    /\ balancer = "chained"
    /\ pc = "ch_get"
    /\ idx > Len(children)
    /\ ret' = ChainedGetNodesResult(acc)
    /\ pc' = "done"
    /\ outcome' = "ok"
    /\ UNCHANGED <<others, balancer, config, children, preChildren,
                   lastDeletePool, hosts, hostNodes, pools, op, arg, idx, acc,
                   nodeset, trace, fault, pre, lastAdd>>

ChainedNext ==
    \/ Ch_add_nodes
    \/ Ch_delete_nodes
    \/ Ch_get_nodes
    \/ Ch_delete_pool
    \/ Ch_foreach_balancer
    \/ Ch_foreach_end
    \/ Ch_get_nodes_child
    \/ Ch_get_nodes_return

Next ==
    \/ SshNext
    \/ StingrayNext
    \/ ChainedNext
    \/ Return

Spec == Init /\ [][Next]_vars

(***************************************************************************)
(* Remote commands that exit unsuccessfully.  _write_file and              *)
(* _reload_config run their commands through _sudo, which sends the        *)
(* command and the password and logs the command's output; it never looks  *)
(* at the exit status.  SpecCmd is one call of the SSH balancer on hosts    *)
(* whose files agree, in which one command may exit unsuccessfully.        *)
(***************************************************************************)

\* The commands _sudo runs, as the answers of the trace name them when they
\* exit unsuccessfully.
FailedCommands == {"mv failed", "chown failed", "reload_cmd failed"}

\* No command of the call in progress has exited unsuccessfully.
NoFailedCommand == \A i \in 1..Len(trace) : trace[i].resp \notin FailedCommands

\* _sudo(con, cmd) for a cmd that exits unsuccessfully: it returns as for
\* any other command, and the method that called it goes on.
Sudo_fails(method, host, nodes, cmd) ==
    trace' = Append(trace, Remote(method, host, nodes, cmd))

\* _set_host_nodes through _write_file, with a failing command: the new
\* contents are in the temporary file; when `mv` fails the host's file keeps
\* its contents, when `chown` fails it has the new ones.  add_nodes or
\* delete_nodes goes on to the reload.
Ssh_write_file_command_fails ==
    /\ balancer = "ssh"
    /\ \/ pc = "add_set" /\ idx <= Len(hosts)
       \/ pc = "del_write"
    /\ NoFailedCommand
    /\ \E l \in ListOf(nodeset) : \E cmd \in {"mv failed", "chown failed"} :
          /\ hostNodes' = IF cmd = "mv failed"
                          THEN hostNodes
                          ELSE [hostNodes EXCEPT ![hosts[idx]] = Range(l)]
          /\ Sudo_fails("set_host_nodes", hosts[idx], Range(l), cmd)
    /\ pc' = IF pc = "add_set" THEN "add_reload" ELSE "del_reload"
    /\ UNCHANGED <<others, balancer, config, children, preChildren,
                   lastDeletePool, hosts, pools, op, arg, idx, acc, nodeset,
                   outcome, fault, ret, pre, lastAdd>>

\* _reload_config with a reload command that exits unsuccessfully: the loop
\* moves to the next host.
Ssh_reload_command_fails ==
    /\ balancer = "ssh"
    /\ pc \in {"add_reload", "del_reload"}
    /\ NoFailedCommand
    /\ Sudo_fails("reload_config", hosts[idx], {}, "reload_cmd failed")
    /\ idx' = idx + 1
    /\ pc' = IF pc = "add_reload" THEN "add_set" ELSE "del_read"
    /\ UNCHANGED <<others, balancer, config, children, preChildren,
                   lastDeletePool, hosts, hostNodes, pools, op, arg, acc,
                   nodeset, outcome, fault, ret, pre, lastAdd>>

InitCmd ==
    /\ Init
    /\ balancer = "ssh"
    /\ \A g, h \in DOMAIN hostNodes : hostNodes[g] = hostNodes[h]

NextCmd ==
    \/ SshNext
    \/ Ssh_write_file_command_fails
    \/ Ssh_reload_command_fails

SpecCmd == InitCmd /\ [][NextCmd]_vars

(***************************************************************************)
(* The control plane is shared: another client may delete the pool or      *)
(* create it between two remote calls of one operation.  (What it does     *)
(* between two operations is a choice of the state the next operation      *)
(* finds, and every such state is an initial state.)  SpecEnv is the       *)
(* Stingray balancer with such a client at work, on a control plane that   *)
(* holds no pool but the balancer's.                                       *)
(***************************************************************************)

\* An operation of the Stingray backend is under way.
Sr_in_call == balancer = "stingray" /\ pc \notin {"idle", "done"}

\* Another client deletes the pool the balancer works on.
Env_deletePool ==
    /\ Sr_in_call
    /\ Prefixed(Pool) \in DOMAIN pools
    /\ pools' = [n \in DOMAIN pools \ {Prefixed(Pool)} |-> pools[n]]
    /\ UNCHANGED <<others, balancer, config, children, preChildren,
                   lastDeletePool, hosts, hostNodes, pc, op, arg, idx, acc,
                   nodeset, trace, outcome, fault, ret, pre, lastAdd>>

\* Another client creates the pool the balancer works on.
Env_addPool ==
    /\ Sr_in_call
    /\ Prefixed(Pool) \notin DOMAIN pools
    /\ \E S \in NodeSets :
          pools' = [n \in DOMAIN pools \cup {Prefixed(Pool)} |->
                       IF n = Prefixed(Pool) THEN S ELSE pools[n]]
    /\ UNCHANGED <<others, balancer, config, children, preChildren,
                   lastDeletePool, hosts, hostNodes, pc, op, arg, idx, acc,
                   nodeset, trace, outcome, fault, ret, pre, lastAdd>>

InitEnv ==
    /\ Init
    /\ balancer = "stingray"
    /\ DOMAIN pools \subseteq {Prefixed(Pool)}

NextEnv ==
    \/ StingrayNext
    \/ Return
    \/ Env_deletePool
    \/ Env_addPool

SpecEnv == InitEnv /\ [][NextEnv]_vars

(***************************************************************************)
(* A caller that retries.  SpecRetry is a caller of the SSH balancer that  *)
(* calls add_nodes(P, N) and, whenever the call raises, calls              *)
(* add_nodes(P, N) again; nobody else writes to the hosts.                 *)
(***************************************************************************)

\* The caller calls add_nodes: with any nodes the first time, with the same
\* nodes after a failure.
Retry_add_nodes ==
    \E N \in NodeSets :
        /\ firstAttempt # <<>> => N = firstAttempt[1]
        /\ Ssh_call("add_nodes", N)

\* add_nodes has raised: the caller catches the exception and goes round
\* again.
Retry_return ==
    /\ balancer = "ssh"
    /\ pc = "done"
    /\ op = "add_nodes"
    /\ outcome = "raised"
    /\ firstAttempt' = IF firstAttempt = <<>>
                       THEN <<arg, pre[1]>>
                       ELSE firstAttempt
    /\ pc' = "idle"
    /\ op' = "none"
    /\ arg' = {}
    /\ idx' = 0
    /\ acc' = <<>>
    /\ nodeset' = {}
    /\ trace' = <<>>
    /\ outcome' = "none"
    /\ fault' = "none"
    /\ ret' = <<>>
    /\ pre' = <<hostNodes, pools>>
    /\ UNCHANGED <<balancer, config, children, preChildren, lastDeletePool,
                   hosts, hostNodes, pools, lastAdd, settings, retry, theHost,
                   lock, repo, staging, racers, rival, proc, query>>

InitRetry == Init /\ balancer = "ssh"

NextRetry ==
    \/ Retry_add_nodes
    \/ Ssh_get_host_nodes
    \/ Ssh_get_nodes_return
    \/ Ssh_add_set_host_nodes
    \/ Ssh_reload_config
    \/ Ssh_loop_end
    \/ Ssh_transport_error
    \/ Retry_return

SpecRetry == InitRetry /\ [][NextRetry]_vars

(***************************************************************************)
(* Construction.  SpecConstruct is the construction of one balancer from   *)
(* a configuration mapping that may lack any of its keys.                  *)
(***************************************************************************)

\* The mappings with exactly the keys K, a key standing for its own value.
ConfigWith(K) == [k \in K |-> k]

StingrayKeys == {"URL", "USER", "PASSWORD", "POOL_PREFIX", "GRACE_PERIOD"}

SshKeys == {"user", "password", "hosts", "tmpdir"}

\* The dotted paths import_class can resolve.
Importable == {"vr.common.balancer.stingray.StingrayBalancer"}

\* The entries of config['BALANCERS']: a Stingray child with all it needs,
\* one without URL, one without BACKEND, and one whose BACKEND is no class.
ChildConfigs ==
    {[BACKEND |-> b, URL |-> "URL", USER |-> "USER", PASSWORD |-> "PASSWORD"] :
        b \in Importable \cup {"no.such.Class"}}
    \cup {[BACKEND |-> b, USER |-> "USER", PASSWORD |-> "PASSWORD"] :
             b \in Importable}
    \cup {[URL |-> "URL", USER |-> "USER", PASSWORD |-> "PASSWORD"]}

ChainedConfigs ==
    {<<>>} \cup
    {[BALANCERS |-> l] :
        l \in UNION {[1..n -> ChildConfigs] : n \in 0..MaxChildren}}

\* A constructor that returned the object obj, or raised the exception e.
Constructed(obj) == [outcome |-> "ok", fault |-> "none", obj |-> <<obj>>]
ConstructorRaised(e) == [outcome |-> "raised", fault |-> e, obj |-> <<>>]

\* Mutant: a StingrayBalancer can be built without URL.
StingrayInit_url_optional(cfg) ==
    IF {"USER", "PASSWORD"} \subseteq DOMAIN cfg
    THEN Constructed([pool_prefix |->
                          IF "POOL_PREFIX" \in DOMAIN cfg
                          THEN cfg["POOL_PREFIX"] ELSE "",
                      grace_period |->
                          IF "GRACE_PERIOD" \in DOMAIN cfg
                          THEN cfg["GRACE_PERIOD"]
                          ELSE DEFAULT_GRACE_PERIOD])
    ELSE ConstructorRaised("KeyError")

\* StingrayBalancer.__init__: config['URL'], config['USER'] and
\* config['PASSWORD'] are subscripted, POOL_PREFIX and GRACE_PERIOD are read
\* with config.get and a default.
StingrayInit(cfg) ==
    IF {"URL", "USER", "PASSWORD"} \subseteq DOMAIN cfg
    THEN Constructed([pool_prefix |->
                          IF "POOL_PREFIX" \in DOMAIN cfg
                          THEN cfg["POOL_PREFIX"] ELSE "",
                      grace_period |->
                          IF "GRACE_PERIOD" \in DOMAIN cfg
                          THEN cfg["GRACE_PERIOD"]
                          ELSE DEFAULT_GRACE_PERIOD])
    ELSE ConstructorRaised("KeyError")

\* SshBasedBalancer.__init__: every parameter is read with config.get and a
\* default; the defaults settings.DEPLOY_USER and settings.DEPLOY_PASSWORD
\* are evaluated whether or not the key is there.
SshInit(cfg, defined) ==
    IF ~(DeploySettings \subseteq defined)
    THEN ConstructorRaised("AttributeError")
    ELSE Constructed(
             [user |-> IF "user" \in DOMAIN cfg
                       THEN cfg["user"] ELSE "settings.DEPLOY_USER",
              password |-> IF "password" \in DOMAIN cfg
                           THEN cfg["password"]
                           ELSE "settings.DEPLOY_PASSWORD",
              hosts |-> IF "hosts" \in DOMAIN cfg
                        THEN cfg["hosts"] ELSE "['localhost']",
              tmpdir |-> IF "tmpdir" \in DOMAIN cfg
                         THEN cfg["tmpdir"] ELSE "/tmp"])

\* import_class(path): the class, or ImportError for whatever went wrong.
ImportClass(path) ==
    IF path \in Importable
    THEN Constructed(path)
    ELSE ConstructorRaised("ImportError")

\* One round of ChainedBalancer.__init__'s loop:
\* cls = import_class(cfg['BACKEND']); balancers.append(cls(cfg)).
ChildInit(cfg) ==
    IF "BACKEND" \notin DOMAIN cfg
    THEN ConstructorRaised("KeyError")
    ELSE IF ImportClass(cfg["BACKEND"]).outcome = "raised"
         THEN ImportClass(cfg["BACKEND"])
         ELSE StingrayInit(cfg)

\* ChainedBalancer.__init__: the first child that cannot be built ends it.
ChainedInit(cfg) ==
    IF "BALANCERS" \notin DOMAIN cfg
    THEN ConstructorRaised("KeyError")
    ELSE LET l == cfg["BALANCERS"]
             bad == {i \in 1..Len(l) : ChildInit(l[i]).outcome = "raised"}
         IN IF bad = {}
            THEN Constructed([i \in 1..Len(l) |-> ChildInit(l[i]).obj[1]])
            ELSE ChildInit(l[CHOOSE i \in bad : \A j \in bad : i <= j])

InitConstruct ==
    /\ balancer \in {"ssh", "stingray", "chained"}
    /\ config \in CASE balancer = "ssh" ->
                       {ConfigWith(K) : K \in SUBSET SshKeys}
                    [] balancer = "stingray" ->
                       {ConfigWith(K) : K \in SUBSET StingrayKeys}
                    [] balancer = "chained" -> ChainedConfigs
    /\ settings \in SUBSET DeploySettings
    /\ balancer # "ssh" => settings = DeploySettings
    /\ firstAttempt = <<>>
    /\ retry = <<>>
    /\ theHost = <<>>
    /\ lock = <<>>
    /\ repo = <<>>
    /\ staging = <<>>
    /\ racers = <<>>
    /\ rival = <<>>
    /\ proc = <<>>
    /\ query = <<>>
    /\ hosts = <<>>
    /\ hostNodes = <<>>
    /\ pools = <<>>
    /\ children = <<>>
    /\ pre = <<hostNodes, pools>>
    /\ preChildren = children
    /\ InitCaller

\* The caller constructs the balancer: cls(config).
Construct ==
    /\ pc = "idle"
    /\ op = "none"
    /\ LET r == CASE balancer = "ssh" -> SshInit(config, settings)
                  [] balancer = "stingray" -> StingrayInit(config)
                  [] balancer = "chained" -> ChainedInit(config)
       IN /\ outcome' = r.outcome
          /\ fault' = r.fault
          /\ ret' = r.obj
    /\ op' = "__init__"
    /\ pc' = "done"
    /\ UNCHANGED <<others, balancer, config, hosts, hostNodes, pools, children,
                   arg, idx, acc, nodeset, trace, pre, preChildren, lastAdd,
                   lastDeletePool>>

SpecConstruct == InitConstruct /\ [][Construct]_vars

(***************************************************************************)
(* models._retry(n, f).  SpecRetryFn is one run of it for an f that, each  *)
(* time it is called, returns a value, raises an Exception, or raises an   *)
(* exception that is no Exception (KeyboardInterrupt, SystemExit).         *)
(***************************************************************************)

\* The balancer variables, which _retry leaves alone.
balancerVars ==
    <<balancer, config, hosts, hostNodes, pools, children, pc, op, arg, idx,
      acc, nodeset, trace, outcome, fault, ret, pre, preChildren, lastAdd,
      lastDeletePool, settings, firstAttempt>>

\* No balancer is at work.
NoBalancer ==
    /\ balancer = "none"
    /\ config = <<>>
    /\ hosts = <<>>
    /\ hostNodes = <<>>
    /\ pools = <<>>
    /\ children = <<>>
    /\ pre = <<hostNodes, pools>>
    /\ preChildren = children
    /\ InitCaller
    /\ settings = DeploySettings
    /\ firstAttempt = <<>>

\* What f may return, and the classes of what it may raise.
ReturnValues == {"v1", "v2"}
ExceptionClasses == {"IOError", "Fault"}
NonExceptionClasses == {"KeyboardInterrupt"}

RECURSIVE Pow2(_)
\* 2 ** i
Pow2(i) == IF i = 0 THEN 1 ELSE 2 * Pow2(i - 1)

\* Mutant: no attempt is taken for the last one.
IsLastAttempt_never(i, n) == FALSE

\* `if i == n - 1`
IsLastAttempt(i, n) == i = n - 1

InitRetryFn ==
    /\ NoBalancer
    /\ theHost = <<>>
    /\ lock = <<>>
    /\ repo = <<>>
    /\ staging = <<>>
    /\ racers = <<>>
    /\ rival = <<>>
    /\ proc = <<>>
    /\ query = <<>>
    /\ \E n \in 0..MaxTries :
          retry = [n |-> n, i |-> 0, pc |-> "for", calls |-> <<>>,
                   slept |-> <<>>, result |-> <<>>]

\* `return f(*args, **kwargs)` where f returns v.
retry_f_returns ==
    /\ retry # <<>>
    /\ retry.pc = "for"
    /\ retry.i < retry.n
    /\ \E v \in ReturnValues :
          retry' = [retry EXCEPT !.calls = Append(@, v),
                                 !.pc = "returned",
                                 !.result = <<v, Len(retry.calls) + 1>>]
    /\ UNCHANGED <<balancerVars, theHost, lock, repo, staging, racers, rival,
                   proc, query>>

\* f raises an Exception: `except Exception as exc`, then raise on the last
\* attempt, else the warning, time.sleep(2 ** i) and the next attempt.
retry_f_raises ==
    /\ retry # <<>>
    /\ retry.pc = "for"
    /\ retry.i < retry.n
    /\ \E e \in ExceptionClasses :
          IF IsLastAttempt(retry.i, retry.n)
          THEN retry' = [retry EXCEPT !.calls = Append(@, e),
                                      !.pc = "raised",
                                      !.result = <<e, Len(retry.calls) + 1>>]
          ELSE retry' = [retry EXCEPT !.calls = Append(@, e),
                                      !.slept = Append(@, Pow2(retry.i)),
                                      !.i = @ + 1]
    /\ UNCHANGED <<balancerVars, theHost, lock, repo, staging, racers, rival,
                   proc, query>>

\* f raises something that is no Exception: no except clause matches.
retry_f_raises_non_exception ==
    /\ retry # <<>>
    /\ retry.pc = "for"
    /\ retry.i < retry.n
    /\ \E e \in NonExceptionClasses :
          retry' = [retry EXCEPT !.calls = Append(@, e),
                                 !.pc = "raised",
                                 !.result = <<e, Len(retry.calls) + 1>>]
    /\ UNCHANGED <<balancerVars, theHost, lock, repo, staging, racers, rival,
                   proc, query>>

\* The for loop is exhausted: raise RuntimeError('Should never get here!').
retry_for_exhausted ==
    /\ retry # <<>>
    /\ retry.pc = "for"
    /\ retry.i >= retry.n
    /\ retry' = [retry EXCEPT !.pc = "raised",
                               !.result = <<"RuntimeError", 0>>]
    /\ UNCHANGED <<balancerVars, theHost, lock, repo, staging, racers, rival,
                   proc, query>>

NextRetryFn ==
    \/ retry_f_returns
    \/ retry_f_raises
    \/ retry_f_raises_non_exception
    \/ retry_for_exhausted

SpecRetryFn == InitRetryFn /\ [][NextRetryFn]_vars

(***************************************************************************)
(* models.Host.get_proc.  SpecHost is one call of get_proc on a Host with  *)
(* or without Redis, whose cache holds entries written earlier and whose   *)
(* supervisor may fail to answer.                                          *)
(***************************************************************************)

ProcNames == {"web", "worker"}
SUPERVISOR_RPC_N_RETRIES == 2

\* Proc(self, data)
Proc(name, data) == <<"Proc", name, data>>

\* Mutant: the hash is not cleared before it is set.
RefreshedCache_merge(h) ==
    IF h.redis
    THEN [n \in DOMAIN h.cache \cup h.procs |->
             IF n \in h.procs THEN "reported" ELSE h.cache[n]]
    ELSE h.cache

\* `if self.redis:` the pipeline: delete the hash, set it to the dumped
\* procs, set its expiry.
RefreshedCache(h) ==
    IF h.redis THEN [n \in h.procs |-> "reported"] ELSE h.cache

\* Mutant: the expiry of the hash is left running.
RefreshedTtl_kept(h) == h.ttl

\* pipe.expire(self.cache_key, self.cache_lifetime), after the delete and
\* the hmset of the same pipeline: a hash with no field does not exist and
\* has no expiry.
RefreshedTtl(h) ==
    IF ~h.redis THEN h.ttl
    ELSE IF h.procs = {} THEN "none"
    ELSE "cache_lifetime"

InitHost ==
    /\ NoBalancer
    /\ retry = <<>>
    /\ lock = <<>>
    /\ repo = <<>>
    /\ staging = <<>>
    /\ racers = <<>>
    /\ rival = <<>>
    /\ proc = <<>>
    /\ query = <<>>
    /\ \E procs \in SUBSET ProcNames, redis \in BOOLEAN :
       \E cached \in SUBSET ProcNames :
          /\ ~redis => cached = {}
          /\ theHost = [procs |-> procs, redis |-> redis,
                     cache |-> [n \in cached |-> "cached"],
                     cache0 |-> [n \in cached |-> "cached"],
                     ttl |-> IF cached = {} THEN "none" ELSE "running",
                     ttl0 |-> IF cached = {} THEN "none" ELSE "running",
                     pc |-> "idle", name |-> "", check_cache |-> FALSE,
                     attempts |-> 0, reported |-> FALSE,
                     procs_dict |-> <<>>, result |-> <<>>]

\* get_proc(name, check_cache) is called.
Host_get_proc ==
    /\ theHost # <<>>
    /\ theHost.pc = "idle"
    /\ \E name \in ProcNames, check_cache \in BOOLEAN :
          theHost' =
              [theHost EXCEPT !.name = name,
                              !.check_cache = check_cache,
                              !.cache0 = theHost.cache,
                              !.ttl0 = theHost.ttl,
                              !.pc = IF check_cache THEN "hget" ELSE "rpc"]
    /\ UNCHANGED <<balancerVars, retry, lock, repo, staging, racers, rival,
                   proc, query>>

\* `cached_json = self.redis.hget(self.cache_key, name)` and the return of
\* a hit; self.redis is None on a Host that was given no Redis.
Host_hget ==
    /\ theHost # <<>>
    /\ theHost.pc = "hget"
    /\ theHost' =
          IF ~theHost.redis
          THEN [theHost EXCEPT !.pc = "done",
                               !.result = <<"raised", "AttributeError">>]
          ELSE IF theHost.name \in DOMAIN theHost.cache
          THEN [theHost EXCEPT !.pc = "done",
                               !.result = Proc(theHost.name,
                                               theHost.cache[theHost.name])]
          ELSE [theHost EXCEPT !.pc = "rpc"]
    /\ UNCHANGED <<balancerVars, retry, lock, repo, staging, racers, rival,
                   proc, query>>

\* _get_and_cache_procs: an attempt of supervisor.getAllProcessInfo returns
\* the list; it is reshaped and, with Redis, replaces the cached hash.
Host_getAllProcessInfo_returns ==
    /\ theHost # <<>>
    /\ theHost.pc = "rpc"
    /\ theHost' =
          [theHost EXCEPT !.attempts = @ + 1,
                          !.reported = TRUE,
                          !.cache = RefreshedCache(theHost),
                          !.ttl = RefreshedTtl(theHost),
                          !.procs_dict = [n \in theHost.procs |-> "reported"],
                          !.pc = "lookup"]
    /\ UNCHANGED <<balancerVars, retry, lock, repo, staging, racers, rival,
                   proc, query>>

\* _get_and_cache_procs: an attempt of supervisor.getAllProcessInfo raises;
\* _retry tries again unless it was the last attempt, and then
\* `except Exception: ... return {}`.
Host_getAllProcessInfo_raises ==
    /\ theHost # <<>>
    /\ theHost.pc = "rpc"
    /\ theHost' =
          IF IsLastAttempt(theHost.attempts, SUPERVISOR_RPC_N_RETRIES)
          THEN [theHost EXCEPT !.attempts = @ + 1,
                               !.procs_dict = <<>>,
                               !.pc = "lookup"]
          ELSE [theHost EXCEPT !.attempts = @ + 1]
    /\ UNCHANGED <<balancerVars, retry, lock, repo, staging, racers, rival,
                   proc, query>>

\* `if name in procs_dict: return Proc(...)  else: raise ProcError(...)`
Host_lookup ==
    /\ theHost # <<>>
    /\ theHost.pc = "lookup"
    /\ theHost' =
          IF theHost.name \in DOMAIN theHost.procs_dict
          THEN [theHost EXCEPT !.pc = "done",
                               !.result =
                                   Proc(theHost.name,
                                        theHost.procs_dict[theHost.name])]
          ELSE [theHost EXCEPT !.pc = "done",
                               !.result = <<"raised", "ProcError">>]
    /\ UNCHANGED <<balancerVars, retry, lock, repo, staging, racers, rival,
                   proc, query>>

NextHost ==
    \/ Host_get_proc
    \/ Host_hget
    \/ Host_getAllProcessInfo_returns
    \/ Host_getAllProcessInfo_raises
    \/ Host_lookup

SpecHost == InitHost /\ [][NextHost]_vars

(***************************************************************************)
(* utils.lock_file.  SpecLock is a set of processes that each open the     *)
(* same file and call one of the two copies of lock_file on it once, and   *)
(* may later close the file.  flock(2) gives LOCK_EX to one open file at a *)
(* time; without LOCK_NB the caller sleeps until it gets it, with LOCK_NB  *)
(* the call fails with EAGAIN.                                             *)
(***************************************************************************)

Processes == {"p1", "p2", "p3"}

\* The two copies: src/vr/common/utils.py and src/common/vr/common/utils.py.
Copies == {"vr.common.utils", "common.vr.common.utils"}

\* Mutant: the second copy's test, in the first copy too.
NonBlocking_inverted(copy, block) == block

\* Whether LOCK_NB is or'ed into the flags:
\* `if not block:` in vr/common/utils.py, `if block:` in the other copy.
NonBlocking(copy, block) ==
    IF copy = "vr.common.utils" THEN ~block ELSE block

\* The processes whose open file has the lock.
Holders == {p \in Processes : lock.proc[p].pc = "locked"}

InitLock ==
    /\ NoBalancer
    /\ retry = <<>>
    /\ theHost = <<>>
    /\ repo = <<>>
    /\ staging = <<>>
    /\ racers = <<>>
    /\ rival = <<>>
    /\ proc = <<>>
    /\ query = <<>>
    /\ \E copy \in Copies :
          lock = [copy |-> copy,
                  proc |-> [p \in Processes |->
                               [pc |-> "idle", block |-> FALSE,
                                waited |-> FALSE, result |-> "none"]]]

\* A process calls lock_file(f, block).
lock_file(p) ==
    /\ lock # <<>>
    /\ lock.proc[p].pc = "idle"
    /\ \E block \in BOOLEAN :
          lock' = [lock EXCEPT !.proc[p].pc = "flock",
                               !.proc[p].block = block]
    /\ UNCHANGED <<balancerVars, retry, theHost, repo, staging, racers, rival,
                   proc, query>>

\* fcntl.flock(f.fileno(), flags) returns: no other open file has the lock.
flock_returns(p) ==
    /\ lock # <<>>
    /\ lock.proc[p].pc = "flock"
    /\ Holders = {}
    /\ lock' = [lock EXCEPT !.proc[p].pc = "locked",
                             !.proc[p].result = "returned"]
    /\ UNCHANGED <<balancerVars, retry, theHost, repo, staging, racers, rival,
                   proc, query>>

\* flock with LOCK_NB while another open file has the lock: IOError with
\* errno EAGAIN, which lock_file turns into SystemExit.
flock_EAGAIN(p) ==
    /\ lock # <<>>
    /\ lock.proc[p].pc = "flock"
    /\ Holders # {}
    /\ NonBlocking(lock.copy, lock.proc[p].block)
    /\ lock' = [lock EXCEPT !.proc[p].pc = "exited",
                             !.proc[p].result = "SystemExit"]
    /\ UNCHANGED <<balancerVars, retry, theHost, repo, staging, racers, rival,
                   proc, query>>

\* flock without LOCK_NB while another open file has the lock: the process
\* sleeps in the call.
flock_waits(p) ==
    /\ lock # <<>>
    /\ lock.proc[p].pc = "flock"
    /\ Holders # {}
    /\ ~NonBlocking(lock.copy, lock.proc[p].block)
    /\ ~lock.proc[p].waited
    /\ lock' = [lock EXCEPT !.proc[p].waited = TRUE]
    /\ UNCHANGED <<balancerVars, retry, theHost, repo, staging, racers, rival,
                   proc, query>>

\* The holder closes the file (or exits), which releases the lock.
close_file(p) ==
    /\ lock # <<>>
    /\ lock.proc[p].pc = "locked"
    /\ lock' = [lock EXCEPT !.proc[p].pc = "closed"]
    /\ UNCHANGED <<balancerVars, retry, theHost, repo, staging, racers, rival,
                   proc, query>>

NextLock ==
    \E p \in Processes :
        \/ lock_file(p)
        \/ flock_returns(p)
        \/ flock_EAGAIN(p)
        \/ flock_waits(p)
        \/ close_file(p)

SpecLock == InitLock /\ [][NextLock]_vars

(***************************************************************************)
(* repo.Repo.update.  SpecRepo is a Repo of vcs type git or hg whose       *)
(* folder is missing or holds a clone that may lag behind the upstream,    *)
(* updated any number of times; any command but the final git reset may    *)
(* fail, and Repo.run then raises.                                         *)
(***************************************************************************)

Commits == {"old", "new"}

\* The name update falls back on: 'master' for git, 'tip' for hg.
DefaultRev(vcs) == IF vcs = "git" THEN "master" ELSE "tip"

\* `rev = rev or self.fragment or None`, then `rev = rev or 'master'`
\* (`rev or 'tip'`).
EffectiveRev(r, rev) ==
    IF rev # "None" THEN rev
    ELSE IF r.fragment # "" THEN r.fragment
    ELSE DefaultRev(r.vcs)

\* Mutant: the checkout leaves the working copy where it is.
Checkout_stays(r, rev) == r.head

\* The commit `git checkout rev` (`hg up --clean rev`) puts the working copy
\* at: the commit named, or the local head of the default branch.
Checkout(r, rev) == IF rev \in Commits THEN rev ELSE r.branch

\* Repo.version: `git rev-parse HEAD` (`hg identify -i`).
Version(r) == r.head

InitRepo ==
    /\ NoBalancer
    /\ retry = <<>>
    /\ theHost = <<>>
    /\ lock = <<>>
    /\ staging = <<>>
    /\ racers = <<>>
    /\ rival = <<>>
    /\ proc = <<>>
    /\ query = <<>>
    /\ \E vcs \in {"git", "hg"}, upstream \in Commits,
          fragment \in {"", "old"}, exists \in BOOLEAN :
       \E head \in Commits, branch \in Commits :
          /\ ~exists => head = upstream /\ branch = upstream
          /\ repo = [vcs |-> vcs, upstream |-> upstream,
                     fragment |-> fragment, exists |-> exists,
                     head |-> IF exists THEN head ELSE "none",
                     branch |-> IF exists THEN branch ELSE "none",
                     pc |-> "idle", arg |-> "None", rev |-> "None",
                     existed |-> exists, before |-> "none",
                     cloned |-> FALSE, result |-> "none",
                     last |-> "none"]

\* update(rev) is called: `if not os.path.exists(self.folder)` decides
\* whether the clone comes first.
Repo_update ==
    /\ repo # <<>>
    /\ repo.pc = "idle"
    /\ \E rev \in Commits \cup {"None", "master"} :
          /\ rev = "master" => repo.vcs = "git"
          /\ repo' = [repo EXCEPT !.arg = rev,
                                   !.rev = EffectiveRev(repo, rev),
                                   !.existed = repo.exists,
                                   !.before = repo.head,
                                   !.cloned = FALSE,
                                   !.result = "none",
                                   !.pc = IF repo.exists THEN "pull"
                                          ELSE "clone"]
    /\ UNCHANGED <<balancerVars, retry, theHost, lock, staging, racers, rival,
                   proc, query>>

\* self.clone(): `git clone url folder` (`hg clone`).
Repo_clone ==
    /\ repo # <<>>
    /\ repo.pc = "clone"
    /\ repo' = [repo EXCEPT !.exists = TRUE,
                             !.head = repo.upstream,
                             !.branch = repo.upstream,
                             !.cloned = TRUE,
                             !.pc = "pull"]
    /\ UNCHANGED <<balancerVars, retry, theHost, lock, staging, racers, rival,
                   proc, query>>

\* `git fetch --tags` (`hg pull url`): the clone learns the upstream's
\* commits; the working copy does not move.
Repo_pull ==
    /\ repo # <<>>
    /\ repo.pc = "pull"
    /\ repo' = [repo EXCEPT !.pc = "checkout"]
    /\ UNCHANGED <<balancerVars, retry, theHost, lock, staging, racers, rival,
                   proc, query>>

\* `git checkout rev`, after which the reset follows; `hg up --clean rev`,
\* which for the default name goes to the pulled tip and ends the update.
Repo_checkout ==
    /\ repo # <<>>
    /\ repo.pc = "checkout"
    /\ repo' =
          IF repo.vcs = "git"
          THEN [repo EXCEPT !.head = Checkout(repo, repo.rev),
                            !.pc = "reset"]
          ELSE [repo EXCEPT !.branch = repo.upstream,
                            !.head = Checkout([repo EXCEPT !.branch =
                                                  repo.upstream], repo.rev),
                            !.result = "returned",
                            !.pc = "done"]
    /\ UNCHANGED <<balancerVars, retry, theHost, lock, staging, racers, rival,
                   proc, query>>

\* `git reset --hard origin/rev` under suppress(CommandException): moves a
\* branch to the upstream's head, fails for a commit and is ignored.
Repo_reset ==
    /\ repo # <<>>
    /\ repo.pc = "reset"
    /\ repo' =
          IF repo.rev \in Commits
          THEN [repo EXCEPT !.result = "returned", !.pc = "done"]
          ELSE [repo EXCEPT !.head = repo.upstream,
                            !.branch = repo.upstream,
                            !.result = "returned",
                            !.pc = "done"]
    /\ UNCHANGED <<balancerVars, retry, theHost, lock, staging, racers, rival,
                   proc, query>>

\* Repo.run: a command exits unsuccessfully and raise_for_status raises.
Repo_command_fails ==
    /\ repo # <<>>
    /\ repo.pc \in {"clone", "pull", "checkout"}
    /\ repo' = [repo EXCEPT !.result = "raised", !.pc = "done"]
    /\ UNCHANGED <<balancerVars, retry, theHost, lock, staging, racers, rival,
                   proc, query>>

\* The caller has its answer and may call update again.
Repo_return ==
    /\ repo # <<>>
    /\ repo.pc = "done"
    /\ repo' = [repo EXCEPT !.pc = "idle",
                             !.last = IF repo.result = "returned"
                                      THEN repo.rev ELSE repo.last]
    /\ UNCHANGED <<balancerVars, retry, theHost, lock, staging, racers, rival,
                   proc, query>>

NextRepo ==
    \/ Repo_update
    \/ Repo_clone
    \/ Repo_pull
    \/ Repo_checkout
    \/ Repo_reset
    \/ Repo_command_fails
    \/ Repo_return

SpecRepo == InitRepo /\ [][NextRepo]_vars

(***************************************************************************)
(* SshBasedBalancer._write_file, step by step.  SpecWriteFile is one run   *)
(* of it against a host whose production file exists or not and whose      *)
(* staging directory may hold a file of the name the run draws.  Every     *)
(* step may fail in the transport, which raises; the two commands run by   *)
(* _sudo may also exit unsuccessfully, which _sudo does not look at.       *)
(***************************************************************************)

\* The variables of the other parts of vr.common modelled above.
modelVars == <<retry, theHost, lock, repo>>

\* The names random.choice can draw for the staging file.
TmpNames == {"aaaaaaaaaa", "bbbbbbbbbb"}

\* The steps of _write_file, in the order of the code.
WriteFileSteps ==
    <<"connect", "open_sftp", "open", "write", "chmod", "mv", "chown">>

\* A file: its contents, its mode and its owner.
File(c, m, o) == [contents |-> c, mode |-> m, owner |-> o]

\* Mutant: _sudo raises when the command exits unsuccessfully.
SudoOnExit_checked(status) == IF status = "exit 0" THEN "return" ELSE "raise"

\* _sudo: exec_command, the password, stdout.read(); the exit status of the
\* command is never asked for.
SudoOnExit(status) == "return"

InitWriteFile ==
    /\ NoBalancer
    /\ retry = <<>>
    /\ theHost = <<>>
    /\ lock = <<>>
    /\ repo = <<>>
    /\ racers = <<>>
    /\ rival = <<>>
    /\ proc = <<>>
    /\ query = <<>>
    /\ \E prod \in {<<>>, <<File("old", "0644", "root")>>},
          left \in SUBSET TmpNames :
          staging = [prod |-> prod,
                     tmp |-> [n \in left |-> File("left", "0600", "other")],
                     pc |-> "idle", at |-> 0, name |-> "", contents |-> "",
                     steps |-> <<>>, result |-> "none"]

\* _write_file(host, path, contents) is called.
WriteFile_call ==
    /\ staging # <<>>
    /\ staging.pc = "idle"
    /\ staging' = [staging EXCEPT !.pc = "run", !.at = 1,
                                   !.contents = "new"]
    /\ UNCHANGED <<balancerVars, modelVars, racers, rival, proc, query>>

\* The step the run has reached.
WriteFileStep ==
    IF staging # <<>> /\ staging.pc = "run" THEN WriteFileSteps[staging.at]
    ELSE "none"

\* The run has taken the step `step` with the answer `answer`.
WriteFile_stepped(st, step, answer) ==
    [st EXCEPT !.steps = Append(@, <<step, answer>>),
               !.at = @ + 1]

\* self._get_connection(host), con.open_sftp().
WriteFile_connect ==
    /\ WriteFileStep \in {"connect", "open_sftp"}
    /\ staging' = WriteFile_stepped(staging, WriteFileStep, "ok")
    /\ UNCHANGED <<balancerVars, modelVars, racers, rival, proc, query>>

\* name = ''.join(random.choice(...)); sftp.open(tmppath, 'wb'): the file is
\* created, or emptied if the name was taken.
WriteFile_open ==
    /\ WriteFileStep = "open"
    /\ \E name \in TmpNames :
          staging' =
              [WriteFile_stepped(staging, "open", "ok") EXCEPT
                  !.name = name,
                  !.tmp = [n \in DOMAIN staging.tmp \cup {name} |->
                              IF n # name THEN staging.tmp[n]
                              ELSE IF n \in DOMAIN staging.tmp
                              THEN [staging.tmp[n] EXCEPT !.contents = ""]
                              ELSE File("", "default", "deploy")]]
    /\ UNCHANGED <<balancerVars, modelVars, racers, rival, proc, query>>

\* f.write(contents) and the close of the file.
WriteFile_write ==
    /\ WriteFileStep = "write"
    /\ staging' =
          [WriteFile_stepped(staging, "write", "ok") EXCEPT
              !.tmp[staging.name].contents = staging.contents]
    /\ UNCHANGED <<balancerVars, modelVars, racers, rival, proc, query>>

\* The transfer breaks during f.write: part of the contents is in the
\* staging file and the exception leaves _write_file.
WriteFile_write_breaks ==
    /\ WriteFileStep = "write"
    /\ staging' =
          [staging EXCEPT !.tmp[staging.name].contents = "part",
                          !.steps = Append(@, <<"write", "raised">>),
                          !.pc = "done", !.result = "raised"]
    /\ UNCHANGED <<balancerVars, modelVars, racers, rival, proc, query>>

\* sftp.chmod(tmppath, 0o644)
WriteFile_chmod ==
    /\ WriteFileStep = "chmod"
    /\ staging' =
          [WriteFile_stepped(staging, "chmod", "ok") EXCEPT
              !.tmp[staging.name].mode = "0644"]
    /\ UNCHANGED <<balancerVars, modelVars, racers, rival, proc, query>>

\* self._sudo(con, 'mv %s %s' % (tmppath, path)): when the command exits
\* with 0 the staging file has become the production file.
WriteFile_mv ==
    /\ WriteFileStep = "mv"
    /\ \E status \in {"exit 0", "exit 1"} :
          LET moved ==
                  [WriteFile_stepped(staging, "mv", status) EXCEPT
                      !.prod = <<staging.tmp[staging.name]>>,
                      !.tmp = [n \in DOMAIN staging.tmp \ {staging.name} |->
                                  staging.tmp[n]]]
              kept == WriteFile_stepped(staging, "mv", status)
              st == IF status = "exit 0" THEN moved ELSE kept
          IN staging' =
                 IF SudoOnExit(status) = "return" THEN st
                 ELSE [st EXCEPT !.pc = "done", !.result = "raised"]
    /\ UNCHANGED <<balancerVars, modelVars, racers, rival, proc, query>>

\* self._sudo(con, 'chown root %s' % path), the last step: when the command
\* exits with 0 the production file is root's.  _write_file returns.
WriteFile_chown ==
    /\ WriteFileStep = "chown"
    /\ \E status \in {"exit 0", "exit 1"} :
          /\ status = "exit 0" => staging.prod # <<>>
          /\ LET st == [staging EXCEPT
                           !.steps = Append(@, <<"chown", status>>),
                           !.prod = IF status = "exit 0"
                                    THEN <<[staging.prod[1] EXCEPT
                                               !.owner = "root"]>>
                                    ELSE @,
                           !.pc = "done"]
             IN staging' =
                    IF SudoOnExit(status) = "return"
                    THEN [st EXCEPT !.result = "returned"]
                    ELSE [st EXCEPT !.result = "raised"]
    /\ UNCHANGED <<balancerVars, modelVars, racers, rival, proc, query>>

\* The connection, the SFTP channel, or the channel of a command fails at
\* the step the run has reached: the exception leaves _write_file.
WriteFile_transport_error ==
    /\ WriteFileStep \notin {"none", "write"}
    /\ staging' = [staging EXCEPT
                       !.steps = Append(@, <<WriteFileStep, "raised">>),
                       !.pc = "done", !.result = "raised"]
    /\ UNCHANGED <<balancerVars, modelVars, racers, rival, proc, query>>

NextWriteFile ==
    \/ WriteFile_call
    \/ WriteFile_connect
    \/ WriteFile_open
    \/ WriteFile_write
    \/ WriteFile_write_breaks
    \/ WriteFile_chmod
    \/ WriteFile_mv
    \/ WriteFile_chown
    \/ WriteFile_transport_error

SpecWriteFile == InitWriteFile /\ [][NextWriteFile]_vars

(***************************************************************************)
(* Two callers of SshBasedBalancer.add_nodes at once.  SpecRace is two     *)
(* callers, in one process or in two, that each call add_nodes(P, N) once  *)
(* on balancers configured with the same hosts; each read of a host's      *)
(* file, each write and each reload is one step, and the steps of the two  *)
(* calls interleave freely.  Nothing in the code holds a lock.             *)
(***************************************************************************)

Callers == {"A", "B"}

\* The other caller.
Other(c) == CHOOSE d \in Callers : d # c

\* The two nodes of the pool's node set that the callers add, one each.
RaceNodes ==
    LET a == CHOOSE n \in Nodes : TRUE
    IN [c \in Callers |->
           IF c = "A" THEN {a} ELSE {CHOOSE n \in Nodes : n # a}]

InitRace ==
    /\ NoBalancer
    /\ retry = <<>>
    /\ theHost = <<>>
    /\ lock = <<>>
    /\ repo = <<>>
    /\ staging = <<>>
    /\ rival = <<>>
    /\ proc = <<>>
    /\ query = <<>>
    /\ \E hs \in HostLists, S \in NodeSets :
          racers = [hosts |-> hs,
                    files |-> [h \in Range(hs) |-> S],
                    call |-> [c \in Callers |->
                                 [pc |-> "idle", idx |-> 0, nodes |-> <<>>,
                                  nodeset |-> {}, after |-> FALSE]]]

\* Caller c calls add_nodes(P, RaceNodes[c]); `after` records whether the
\* other call had ended by then.
Race_add_nodes(c) ==
    /\ racers # <<>>
    /\ racers.call[c].pc = "idle"
    /\ racers' = [racers EXCEPT
                      !.call[c].pc = "get",
                      !.call[c].idx = 1,
                      !.call[c].after = racers.call[Other(c)].pc = "done"]
    /\ UNCHANGED <<balancerVars, modelVars, staging, rival, proc, query>>

\* get_nodes, one host.
Race_get_host_nodes(c) ==
    /\ racers # <<>>
    /\ racers.call[c].pc = "get"
    /\ racers.call[c].idx <= Len(racers.hosts)
    /\ LET host_nodes == racers.files[racers.hosts[racers.call[c].idx]]
       IN racers' = [racers EXCEPT
                         !.call[c].nodes = GetNodesMerge(@, host_nodes).nodes,
                         !.call[c].idx = @ + 1]
    /\ UNCHANGED <<balancerVars, modelVars, staging, rival, proc, query>>

\* nodeset = set(self.get_nodes(pool)).union(nodes)
Race_get_nodes_return(c) ==
    /\ racers # <<>>
    /\ racers.call[c].pc = "get"
    /\ racers.call[c].idx > Len(racers.hosts)
    /\ \E l \in GetNodesResult(racers.call[c].nodes) :
          racers' = [racers EXCEPT
                        !.call[c].nodeset = AddNodeset(Range(l), RaceNodes[c]),
                        !.call[c].pc = "set",
                        !.call[c].idx = 1]
    /\ UNCHANGED <<balancerVars, modelVars, staging, rival, proc, query>>

\* self._set_host_nodes(host, pool, list(nodeset))
Race_set_host_nodes(c) ==
    /\ racers # <<>>
    /\ racers.call[c].pc = "set"
    /\ racers.call[c].idx <= Len(racers.hosts)
    /\ racers' = [racers EXCEPT
                      !.files[racers.hosts[racers.call[c].idx]] =
                          racers.call[c].nodeset,
                      !.call[c].pc = "reload"]
    /\ UNCHANGED <<balancerVars, modelVars, staging, rival, proc, query>>

\* self._reload_config(host)
Race_reload_config(c) ==
    /\ racers # <<>>
    /\ racers.call[c].pc = "reload"
    /\ racers' = [racers EXCEPT !.call[c].pc = "set",
                                 !.call[c].idx = @ + 1]
    /\ UNCHANGED <<balancerVars, modelVars, staging, rival, proc, query>>

\* The host loop has ended: add_nodes returns.
Race_loop_end(c) ==
    /\ racers # <<>>
    /\ racers.call[c].pc = "set"
    /\ racers.call[c].idx > Len(racers.hosts)
    /\ racers' = [racers EXCEPT !.call[c].pc = "done"]
    /\ UNCHANGED <<balancerVars, modelVars, staging, rival, proc, query>>

NextRace ==
    \E c \in Callers :
        \/ Race_add_nodes(c)
        \/ Race_get_host_nodes(c)
        \/ Race_get_nodes_return(c)
        \/ Race_set_host_nodes(c)
        \/ Race_reload_config(c)
        \/ Race_loop_end(c)

SpecRace == InitRace /\ [][NextRace]_vars

(***************************************************************************)
(* A second caller of the Stingray backend.  SpecRival is one              *)
(* delete_pool_if_empty or delete_nodes call of a StingrayBalancer while   *)
(* another caller runs add_nodes(P, N) on the same pool: the control plane *)
(* serves the remote calls of the two one at a time, in any order.         *)
(***************************************************************************)

InitRival ==
    /\ balancer = "stingray"
    /\ config \in StingrayConfigs
    /\ hosts = <<>>
    /\ hostNodes = <<>>
    /\ pools \in PoolStates
    /\ DOMAIN pools \subseteq {Prefixed(Pool)}
    /\ children = <<>>
    /\ pre = <<hostNodes, pools>>
    /\ preChildren = children
    /\ InitCaller
    /\ settings = DeploySettings
    /\ firstAttempt = <<>>
    /\ retry = <<>>
    /\ theHost = <<>>
    /\ lock = <<>>
    /\ repo = <<>>
    /\ staging = <<>>
    /\ racers = <<>>
    /\ proc = <<>>
    /\ query = <<>>
    /\ \E N \in NodeSets \ {{}} :
          rival = [pc |-> "idle", nodes |-> N, result |-> "none"]

\* The other caller's add_nodes: addNodes is served when the pool exists,
\* and answered with 'Unknown pool' when it does not.
Rival_addNodes ==
    /\ rival # <<>>
    /\ rival.pc = "idle"
    /\ IF Prefixed(Pool) \in DOMAIN pools
       THEN /\ pools' = [pools EXCEPT ![Prefixed(Pool)] = @ \cup rival.nodes]
            /\ rival' = [rival EXCEPT !.pc = "done", !.result = "ok"]
       ELSE /\ rival' = [rival EXCEPT !.pc = "addPool"]
            /\ UNCHANGED pools
    /\ UNCHANGED <<balancer, config, hosts, hostNodes, children, pc, op, arg,
                   idx, acc, nodeset, trace, outcome, fault, ret, pre,
                   preChildren, lastAdd, lastDeletePool, settings,
                   firstAttempt, modelVars, staging, racers, proc, query>>

\* The other caller's add_pool: addPool creates the pool with the nodes, and
\* is refused when the pool has come to exist.
Rival_addPool ==
    /\ rival # <<>>
    /\ rival.pc = "addPool"
    /\ IF Prefixed(Pool) \notin DOMAIN pools
       THEN /\ pools' = [n \in DOMAIN pools \cup {Prefixed(Pool)} |->
                            IF n = Prefixed(Pool) THEN rival.nodes
                            ELSE pools[n]]
            /\ rival' = [rival EXCEPT !.pc = "done", !.result = "ok"]
       ELSE /\ rival' = [rival EXCEPT !.pc = "done", !.result = "raised"]
            /\ UNCHANGED pools
    /\ UNCHANGED <<balancer, config, hosts, hostNodes, children, pc, op, arg,
                   idx, acc, nodeset, trace, outcome, fault, ret, pre,
                   preChildren, lastAdd, lastDeletePool, settings,
                   firstAttempt, modelVars, staging, racers, proc, query>>

NextRival ==
    \/ Sr_delete_nodes
    \/ Sr_delete_pool_if_empty
    \/ Sr_default_delete_pool_if_empty
    \/ Sr_getNodes
    \/ Sr_disableNodes
    \/ Sr_sleep
    \/ Sr_removeNodes
    \/ Sr_deletePool
    \/ Rival_addNodes
    \/ Rival_addPool

SpecRival == InitRival /\ [][NextRival]_vars

(***************************************************************************)
(* Proc.start, Proc.stop and Proc.restart.  SpecProc is one Proc of one    *)
(* supervisor: the supervisor holds whether the process runs, answers      *)
(* startProcess and stopProcess with a result, an xmlrpc Fault or another  *)
(* exception, and may start or stop the process on its own between the     *)
(* calls.                                                                  *)
(***************************************************************************)

\* The calls of start, stop and restart one run makes.
MaxCalls == 2

\* The fault strings a supervisor answer may carry; the last one is the
\* fault name followed by a detail.
FaultStrings ==
    {"ALREADY_STARTED", "NOT_RUNNING", "SPAWN_ERROR", "FAILED",
     "ALREADY_STARTED: web"}

Fault(str) == [kind |-> "Fault", faultString |-> str]

Answered == [kind |-> "result", faultString |-> ""]

SocketError == [kind |-> "Exception", faultString |-> ""]

\* What startProcess answers when the process runs or does not.
StartAnswers(running) ==
    IF running
    THEN {Fault("ALREADY_STARTED"), Fault("ALREADY_STARTED: web"),
          SocketError}
    ELSE {Answered, Fault("SPAWN_ERROR"), SocketError}

\* What stopProcess answers when the process runs or does not.
StopAnswers(running) ==
    IF running
    THEN {Answered, Fault("FAILED"), SocketError}
    ELSE {Fault("NOT_RUNNING"), SocketError}

\* Mutant: every fault of stopProcess is swallowed.
StopOutcome_swallow(answer) ==
    IF answer.kind = "Exception" THEN "raise" ELSE "return"

\* Mutant: start raises on ALREADY_STARTED too.
StartOutcome_strict(answer) ==
    IF answer.kind = "result" THEN "return" ELSE "raise"

\* Proc.start: the except clauses around startProcess.
StartOutcome(answer) ==
    IF answer.kind = "result" THEN "return"
    ELSE IF answer.kind = "Fault" /\ answer.faultString = "ALREADY_STARTED"
    THEN "return"
    ELSE "raise"

\* Proc.stop: the except clauses around stopProcess.
StopOutcome(answer) ==
    IF answer.kind = "result" THEN "return"
    ELSE IF answer.kind = "Fault" /\ answer.faultString = "NOT_RUNNING"
    THEN "return"
    ELSE "raise"

\* What the except clauses log for an answer: log.warning for the fault
\* that is passed over, log.exception for what is raised again.
Logged(ends, answer) ==
    IF answer.kind = "result" THEN <<>>
    ELSE IF ends = "return" THEN <<"warning">>
    ELSE <<"exception">>

InitProc ==
    /\ NoBalancer
    /\ retry = <<>>
    /\ theHost = <<>>
    /\ lock = <<>>
    /\ repo = <<>>
    /\ staging = <<>>
    /\ racers = <<>>
    /\ rival = <<>>
    /\ query = <<>>
    /\ \E running \in BOOLEAN :
          proc = [running |-> running, pc |-> "idle", op |-> "none",
                  rpcs |-> <<>>, result |-> <<>>, log |-> <<>>,
                  calls |-> 0]

\* proc.start()
Proc_start ==
    /\ proc # <<>>
    /\ proc.pc = "idle"
    /\ proc.calls < MaxCalls
    /\ proc' = [proc EXCEPT !.pc = "startProcess", !.op = "start",
                            !.calls = @ + 1]
    /\ UNCHANGED <<balancerVars, modelVars, staging, racers, rival, query>>

\* proc.stop()
Proc_stop ==
    /\ proc # <<>>
    /\ proc.pc = "idle"
    /\ proc.calls < MaxCalls
    /\ proc' = [proc EXCEPT !.pc = "stopProcess", !.op = "stop",
                            !.calls = @ + 1]
    /\ UNCHANGED <<balancerVars, modelVars, staging, racers, rival, query>>

\* proc.restart(): self.stop() comes first.
Proc_restart ==
    /\ proc # <<>>
    /\ proc.pc = "idle"
    /\ proc.calls < MaxCalls
    /\ proc' = [proc EXCEPT !.pc = "stopProcess", !.op = "restart",
                            !.calls = @ + 1]
    /\ UNCHANGED <<balancerVars, modelVars, staging, racers, rival, query>>

\* self.host.supervisor.stopProcess(self.name) is answered; stop returns or
\* raises, and restart goes on to self.start() when stop returned.
Proc_stopProcess ==
    /\ proc # <<>>
    /\ proc.pc = "stopProcess"
    /\ \E answer \in StopAnswers(proc.running) :
          LET served == [proc EXCEPT
                           !.rpcs = Append(@, <<"stopProcess", answer>>),
                           !.log = @ \o Logged(StopOutcome(answer), answer),
                           !.running = IF answer.kind = "result"
                                       THEN FALSE ELSE @]
          IN  proc' =
                IF StopOutcome(answer) = "raise"
                THEN [served EXCEPT !.pc = "done",
                                    !.result = <<"raised", answer>>]
                ELSE IF proc.op = "restart"
                THEN [served EXCEPT !.pc = "startProcess"]
                ELSE [served EXCEPT !.pc = "done",
                                    !.result = <<"returned">>]
    /\ UNCHANGED <<balancerVars, modelVars, staging, racers, rival, query>>

\* self.host.supervisor.startProcess(self.name) is answered; start returns
\* or raises, and so does the restart it ends.
Proc_startProcess ==
    /\ proc # <<>>
    /\ proc.pc = "startProcess"
    /\ \E answer \in StartAnswers(proc.running) :
          LET served == [proc EXCEPT
                           !.rpcs = Append(@, <<"startProcess", answer>>),
                           !.log = @ \o Logged(StartOutcome(answer), answer),
                           !.running = IF answer.kind = "result"
                                       THEN TRUE ELSE @]
          IN  proc' =
                IF StartOutcome(answer) = "raise"
                THEN [served EXCEPT !.pc = "done",
                                    !.result = <<"raised", answer>>]
                ELSE [served EXCEPT !.pc = "done",
                                    !.result = <<"returned">>]
    /\ UNCHANGED <<balancerVars, modelVars, staging, racers, rival, query>>

\* The supervisor starts or stops the process on its own (autorestart, an
\* exit, another client) while a call is under way.
Supervisor_changes ==
    /\ proc # <<>>
    /\ proc.pc \in {"stopProcess", "startProcess"}
    /\ proc' = [proc EXCEPT !.running = ~@]
    /\ UNCHANGED <<balancerVars, modelVars, staging, racers, rival, query>>

\* The caller is back and may call again.
Proc_return ==
    /\ proc # <<>>
    /\ proc.pc = "done"
    /\ proc' = [proc EXCEPT !.pc = "idle", !.op = "none", !.rpcs = <<>>,
                            !.result = <<>>]
    /\ UNCHANGED <<balancerVars, modelVars, staging, racers, rival, query>>

NextProc ==
    \/ Proc_start
    \/ Proc_stop
    \/ Proc_restart
    \/ Proc_stopProcess
    \/ Proc_startProcess
    \/ Supervisor_changes
    \/ Proc_return

SpecProc == InitProc /\ [][NextProc]_vars

(***************************************************************************)
(* QueryResult.  SpecQuery is one QueryResult iterated by one caller over  *)
(* a chain of pages held by the server: the objects are numbered 1, 2, ... *)
(* along the chain, every page but the last carries in meta.next the link  *)
(* to the page after it, and a GET is answered with a page or, a bounded   *)
(* number of times, with an HTTP error.                                    *)
(***************************************************************************)

\* The pages of a chain, the objects of a page, the HTTP errors of a run.
MaxPages == 3

MaxPageSize == 2

MaxHttpErrors == 1

\* The chains: the number of objects on each page.
Chains ==
    UNION {[1..n -> 0..MaxPageSize] : n \in 1..MaxPages}

RECURSIVE ObjectsBefore(_, _)
\* The number of objects on the pages before page i of the chain.
ObjectsBefore(sizes, i) ==
    IF i <= 1 THEN 0 ELSE ObjectsBefore(sizes, i - 1) + sizes[i - 1]

\* resp.json() for page i: its objects in order and meta.next, 0 for null.
Page(sizes, i) ==
    [page |-> i,
     objects |-> [k \in 1..sizes[i] |-> ObjectsBefore(sizes, i) + k],
     next |-> IF i < Len(sizes) THEN i + 1 ELSE 0]

\* self.sess.get(url, params=params): the page the parameters name, the
\* first page when they name none.
Serve(sizes, params) ==
    Page(sizes, IF params = 0 THEN 1 ELSE params)

\* load(next): the parameters of the request, updated from the query
\* string of the link when there is one.
LoadParams(params, next) == IF next # 0 THEN next ELSE params

\* Mutant: the link to the next page is never followed.
HasNext_never(doc) == FALSE

\* meta.get('next')
HasNext(doc) == doc.next # 0

\* self._index >= len(objects)
Exhausted(q) == q.index >= Len(q.doc.objects)

InitQuery ==
    /\ NoBalancer
    /\ retry = <<>>
    /\ theHost = <<>>
    /\ lock = <<>>
    /\ repo = <<>>
    /\ staging = <<>>
    /\ racers = <<>>
    /\ rival = <<>>
    /\ proc = <<>>
    /\ \E sizes \in Chains :
          query = [sizes |-> sizes, params |-> 0, doc |-> <<>>, index |-> 0,
                   pc |-> "idle", yielded |-> <<>>, loads |-> <<>>,
                   errors |-> 0, stops |-> 0]

\* The caller calls next(result): the first time, after an object, after an
\* HTTP error, or once more after StopIteration.
Query_next ==
    /\ query # <<>>
    /\ query.pc \in {"idle", "raised", "stopped"}
    /\ query.pc = "stopped" => query.stops < 2
    /\ query' = [query EXCEPT !.pc = "next"]
    /\ UNCHANGED <<balancerVars, modelVars, staging, racers, rival, proc>>

\* if not self._doc: self._doc = self.load()
Query_load ==
    /\ query # <<>>
    /\ query.pc = "next"
    /\ query.doc = <<>>
    /\ LET params == LoadParams(query.params, 0)
           doc == Serve(query.sizes, params)
       IN  query' = [query EXCEPT !.params = params, !.doc = doc,
                                  !.loads = Append(@, doc.page)]
    /\ UNCHANGED <<balancerVars, modelVars, staging, racers, rival, proc>>

\* The page is exhausted and has a next link: self._doc =
\* self.load(meta['next']), self._index = 0, return next(self).
Query_follow ==
    /\ query # <<>>
    /\ query.pc = "next"
    /\ query.doc # <<>>
    /\ Exhausted(query)
    /\ HasNext(query.doc)
    /\ LET params == LoadParams(query.params, query.doc.next)
           doc == Serve(query.sizes, params)
       IN  query' = [query EXCEPT !.params = params, !.doc = doc,
                                  !.index = 0,
                                  !.loads = Append(@, doc.page)]
    /\ UNCHANGED <<balancerVars, modelVars, staging, racers, rival, proc>>

\* resp.raise_for_status() raises in load: next() raises with self._doc
\* and self._index as they were.
Query_load_raises ==
    /\ query # <<>>
    /\ query.pc = "next"
    /\ query.errors < MaxHttpErrors
    /\ \/ query.doc = <<>>
       \/ query.doc # <<>> /\ Exhausted(query) /\ HasNext(query.doc)
    /\ query' = [query EXCEPT
                   !.pc = "raised",
                   !.errors = @ + 1,
                   !.params = IF query.doc = <<>> THEN @
                              ELSE LoadParams(@, query.doc.next)]
    /\ UNCHANGED <<balancerVars, modelVars, staging, racers, rival, proc>>

\* result = objects[self._index]; self._index += 1; return result
Query_yield ==
    /\ query # <<>>
    /\ query.pc = "next"
    /\ query.doc # <<>>
    /\ ~Exhausted(query)
    /\ query' = [query EXCEPT
                   !.yielded = Append(@, query.doc.objects[query.index + 1]),
                   !.index = @ + 1,
                   !.pc = "idle"]
    /\ UNCHANGED <<balancerVars, modelVars, staging, racers, rival, proc>>

\* The page is exhausted and has no next link: raise StopIteration().
Query_StopIteration ==
    /\ query # <<>>
    /\ query.pc = "next"
    /\ query.doc # <<>>
    /\ Exhausted(query)
    /\ ~HasNext(query.doc)
    /\ query' = [query EXCEPT !.pc = "stopped", !.stops = @ + 1]
    /\ UNCHANGED <<balancerVars, modelVars, staging, racers, rival, proc>>

NextQuery ==
    \/ Query_next
    \/ Query_load
    \/ Query_follow
    \/ Query_load_raises
    \/ Query_yield
    \/ Query_StopIteration

\* The caller goes on calling next() and the server goes on answering.
SpecQuery == InitQuery /\ [][NextQuery]_vars /\ WF_vars(NextQuery)

(***************************************************************************)
(* Properties                                                              *)
(***************************************************************************)

\* The members of the pool on the Stingray control plane ps.
PoolMembers(ps) ==
    IF Prefixed(Pool) \in DOMAIN ps THEN ps[Prefixed(Pool)] ELSE {}

\* What get_nodes reports in the remote state s = <<hostNodes, pools>>.
Membership(s) ==
    IF balancer = "ssh" THEN HostUnion(s[1]) ELSE PoolMembers(s[2])

Ended(o) == pc = "done" /\ op = o

Succeeded(o) == Ended(o) /\ outcome = "ok"

\* The call in progress repeats the successful add_nodes(arg) that the
\* caller made just before it on a pool without members.
SecondAdd == op = "add_nodes" /\ lastAdd = <<arg>>

\* C1: add_nodes(P, N) run a second time right after an add_nodes(P, N) that
\* started with no members in P changes nothing and creates nothing anew: at
\* every step of the second call the remote state is the state the first
\* call left, no 'Unknown pool' fault ends it and addPool is not called
\* again; when it has returned, the members of P are exactly N and, on the
\* SSH backend with at least one configured host, every host holds exactly N.
C1_IdempotentAdd ==
    (SecondAdd /\ pc # "idle") =>
        /\ <<hostNodes, pools>> = pre
        /\ fault # "Unknown pool"
        /\ Calls("addPool") = {}
        /\ (Succeeded("add_nodes") /\ (balancer = "ssh" => hosts # <<>>)) =>
               /\ Membership(<<hostNodes, pools>>) = arg
               /\ balancer = "ssh" => \A h \in DOMAIN hostNodes :
                                          hostNodes[h] = arg

\* C1 as stated, for any balancer: after the second add_nodes(P, N) the
\* members of P are exactly N.
C1_Original ==
    (SecondAdd /\ Succeeded("add_nodes")) =>
        Membership(<<hostNodes, pools>>) = arg

\* C1 witness: the second add_nodes(P, {n}) has returned on an SSH balancer
\* with two hosts or more.
C1_Witness ==
    /\ SecondAdd
    /\ Succeeded("add_nodes")
    /\ balancer = "ssh"
    /\ Len(hosts) >= 2
    /\ Cardinality(arg) = 1

\* The same case on the Stingray backend, where the first call created the pool.
C1_WitnessStingray ==
    /\ SecondAdd
    /\ Succeeded("add_nodes")
    /\ balancer = "stingray"
    /\ Cardinality(arg) = 1
    /\ PoolMembers(pools) = arg

C3_IdempotentDelete ==
    (op = "delete_nodes" /\ arg \cap Membership(pre) = {}) =>
        /\ <<hostNodes, pools>> = pre
        /\ fault \in {"none", "transport", "WebFault"}
        /\ Calls("disableNodes") \cup Calls("removeNodes")
             \cup Calls("deletePool") = {}

\* C3 witness: such a delete has returned normally for a pool the Stingray
\* control plane does not know.
C3_Witness ==
    /\ balancer = "stingray"
    /\ Succeeded("delete_nodes")
    /\ arg # {}
    /\ Prefixed(Pool) \notin DOMAIN pre[2]

\* The same case on the SSH backend: hosts with members, none of them given.
C3_WitnessSsh ==
    /\ balancer = "ssh"
    /\ Succeeded("delete_nodes")
    /\ arg # {}
    /\ HostUnion(pre[1]) # {}
    /\ arg \cap HostUnion(pre[1]) = {}

C6_GetNodesUnion ==
    (balancer = "ssh" /\ Ended("get_nodes")) =>
        /\ outcome = "raised" => fault = "transport"
        /\ outcome = "ok" =>
               /\ Range(ret) = HostUnion(hostNodes)
               /\ Cardinality(Range(ret)) = Len(ret)
               /\ \A h \in DOMAIN hostNodes :
                      (\A g \in DOMAIN hostNodes : hostNodes[g] = hostNodes[h])
                          => Range(ret) = hostNodes[h]
               /\ (\A h \in DOMAIN hostNodes : hostNodes[h] = {}) => ret = <<>>

\* C6 witness: get_nodes has returned two nodes from two hosts neither of
\* which holds both.
C6_Witness ==
    /\ balancer = "ssh"
    /\ Succeeded("get_nodes")
    /\ Len(ret) = 2
    /\ \A h \in DOMAIN hostNodes : Cardinality(hostNodes[h]) <= 1

\* Whether the hosts hold the same set.
HostsAgree == \A g, h \in DOMAIN hostNodes : hostNodes[g] = hostNodes[h]

\* The hosts, beyond the first, whose set differs from the union of the
\* sets of the hosts before them.
Dissenters ==
    {i \in 2..Len(hosts) :
        hostNodes[hosts[i]] # UNION {hostNodes[hosts[j]] : j \in 1..(i - 1)}}

\* C7 as stated: exactly one warning when the hosts disagree, however many
\* hosts there are, and none when they agree.
C7_Original ==
    (balancer = "ssh" /\ Succeeded("get_nodes")) =>
        Cardinality(Calls("warn")) = IF HostsAgree THEN 0 ELSE 1

\* C7: a call of SshBasedBalancer.get_nodes emits no warning when all hosts
\* report the same set and at least one when they do not: one for every
\* host, beyond the first, whose set differs from the union of the sets
\* reported before it, which is exactly one with two hosts and up to
\* (number of hosts - 1) with more.
C7_WarningPerDissenter ==
    (balancer = "ssh" /\ Succeeded("get_nodes")) =>
        /\ Cardinality(Calls("warn")) = Cardinality(Dissenters)
        /\ HostsAgree <=> Calls("warn") = {}
        /\ Len(hosts) = 2 /\ ~HostsAgree => Cardinality(Calls("warn")) = 1
        /\ Cardinality(Calls("warn")) <= IF hosts = <<>> THEN 0
                                         ELSE Len(hosts) - 1

\* C7 witness: get_nodes has returned after warning about two of three hosts.
C7_Witness ==
    /\ balancer = "ssh"
    /\ Succeeded("get_nodes")
    /\ Len(hosts) = 3
    /\ Cardinality(Calls("warn")) = 2

\* The intersection I of the nodes given to delete_nodes with the members
\* the pool had when the call started.
Intersection == arg \cap PoolMembers(pre[2])

StingrayDelete == balancer = "stingray" /\ op = "delete_nodes"

\* C8: in StingrayBalancer.delete_nodes, disableNodes and removeNodes are
\* each called at most once, only on the non-empty intersection I and on the
\* prefixed pool; removeNodes directly follows a wait of the configured
\* GRACE_PERIOD (2 when none is configured), which directly follows a
\* disableNodes that was served,
\* on the same set; once I is non-empty and the read has succeeded,
\* disableNodes is called, and a call that returns normally has removed I.
C8_DrainOrdering ==
    StingrayDelete =>
        /\ \A i \in Calls("disableNodes") \cup Calls("removeNodes") :
               /\ trace[i].nodes = Intersection
               /\ trace[i].nodes # {}
               /\ trace[i].target = Prefixed(Pool)
        /\ Cardinality(Calls("disableNodes")) <= 1
        /\ Cardinality(Calls("removeNodes")) <= 1
        /\ \A k \in Calls("removeNodes") :
               /\ k = 4
               /\ trace[k - 1] =
                      SleepEvent(IF config = <<>> THEN 2
                                 ELSE config.GRACE_PERIOD)
               /\ trace[k - 2] =
                      Remote("disableNodes", Prefixed(Pool), Intersection,
                             "none")
        /\ \A k \in Calls("sleep") : k = 3 /\ trace[k - 1].call = "disableNodes"
        /\ (pc \in {"sleep", "removeNodes", "cleanup_getNodes", "deletePool"}
              \/ (Succeeded("delete_nodes") /\ Intersection # {})) =>
               Calls("disableNodes") = {2}
        /\ (Succeeded("delete_nodes") /\ Intersection # {}) =>
               /\ Calls("removeNodes") = {4}
               /\ PoolMembers(pools) = PoolMembers(pre[2]) \ Intersection

\* C8 witness: a delete has returned after removing the one member among
\* the nodes given, which named a non-member too.
C8_Witness ==
    /\ StingrayDelete
    /\ Succeeded("delete_nodes")
    /\ Calls("removeNodes") # {}
    /\ Intersection # arg

\* C9: StingrayBalancer.delete_nodes(P, N) with no node of N among the
\* members of P (P may be unknown to the remote) makes one remote call, the
\* getNodes read, calls neither disableNodes nor removeNodes, and returns
\* normally unless that read failed with a fault other than 'Unknown pool'.
C9_EmptyIntersection ==
    (StingrayDelete /\ Intersection = {}) =>
        /\ Calls("disableNodes") = {}
        /\ Calls("removeNodes") = {}
        /\ pc \in {"del_getNodes", "done"}
        /\ Ended("delete_nodes") =>
               /\ Len(trace) = 1
               /\ trace[1].call = "getNodes"
               /\ trace[1].resp \in {"none", "Unknown pool"} =>
                      outcome = "ok"
               /\ outcome = "raised" => fault = trace[1].resp

\* C9 witness: such a delete has returned normally on a pool that has
\* members, none of them among the nodes given.
C9_Witness ==
    /\ StingrayDelete
    /\ Succeeded("delete_nodes")
    /\ Intersection = {}
    /\ arg # {}
    /\ PoolMembers(pre[2]) # {}

\* The same case for a pool the remote does not know.
C9_WitnessUnknown ==
    /\ StingrayDelete
    /\ Succeeded("delete_nodes")
    /\ arg # {}
    /\ trace = <<Remote("getNodes", Prefixed(Pool), {}, "Unknown pool")>>

StingrayAdd == balancer = "stingray" /\ op = "add_nodes"

\* C10: StingrayBalancer.add_nodes(P, N) calls addNodes first, with N;
\* it calls addPool, once and with N, exactly when that addNodes failed with
\* an 'Unknown pool' fault; when addNodes is served the call returns with no
\* addPool, and when addNodes fails with another fault the call raises that
\* fault with no addPool.
C10_LazyPoolCreation ==
    (StingrayAdd /\ trace # <<>>) =>
        /\ trace[1] \in {Remote("addNodes", Prefixed(Pool), arg, f) :
                            f \in {"none", "Unknown pool", "WebFault",
                                   "transport"}}
        /\ Calls("addNodes") = {1}
        /\ Calls("addPool") \subseteq {2}
        /\ \A k \in Calls("addPool") :
               /\ trace[k].nodes = arg
               /\ trace[k].target = Prefixed(Pool)
               /\ trace[1].resp = "Unknown pool"
        /\ trace[1].resp = "Unknown pool" =>
               \/ pc = "addPool" /\ Len(trace) = 1
               \/ Ended("add_nodes") /\ Calls("addPool") = {2}
        /\ trace[1].resp = "none" =>
               Succeeded("add_nodes") /\ Len(trace) = 1
        /\ trace[1].resp \in {"WebFault", "transport"} =>
               /\ Ended("add_nodes") /\ Len(trace) = 1
               /\ outcome = "raised"
               /\ fault = trace[1].resp
               /\ pools = pre[2]

\* C10 witness: add_nodes has created an unknown pool with the two nodes
\* given.
C10_Witness ==
    /\ StingrayAdd
    /\ Succeeded("add_nodes")
    /\ Prefixed(Pool) \notin DOMAIN pre[2]
    /\ Calls("addPool") = {2}
    /\ Cardinality(arg) = 2
    /\ PoolMembers(pools) = arg

\* C11: a StingrayBalancer.delete_nodes calls deletePool only on the prefixed
\* pool, only after a removeNodes that was served and a read that found the
\* pool empty; a call that leaves a member in the pool never calls deletePool
\* and the pool stays; a call that returns normally after removing the last
\* members has called deletePool once and the pool is gone.
C11_SelfCleanup ==
    StingrayDelete =>
        /\ \A d \in Calls("deletePool") :
               /\ trace[d].target = Prefixed(Pool)
               /\ trace[d - 1] = Remote("getNodes", Prefixed(Pool), {}, "none")
               /\ PoolMembers(pre[2]) \subseteq arg
               /\ \E r \in Calls("removeNodes") :
                      r < d /\ trace[r].resp = "none"
        /\ PoolMembers(pre[2]) \ arg # {} =>
               /\ Calls("deletePool") = {}
               /\ Prefixed(Pool) \in DOMAIN pools
        /\ (/\ Succeeded("delete_nodes")
            /\ Intersection # {}
            /\ PoolMembers(pre[2]) \subseteq arg) =>
               /\ Cardinality(Calls("deletePool")) = 1
               /\ Prefixed(Pool) \notin DOMAIN pools

\* C11 witness: a delete has returned after removing the last two members
\* and deleting the pool.
C11_Witness ==
    /\ StingrayDelete
    /\ Succeeded("delete_nodes")
    /\ Cardinality(PoolMembers(pre[2])) = 2
    /\ Calls("removeNodes") = {4}
    /\ Calls("deletePool") = {7}
    /\ Prefixed(Pool) \notin DOMAIN pools

\* The other case: a delete has returned after removing one of two members,
\* and the pool is still there.
C11_WitnessRemaining ==
    /\ StingrayDelete
    /\ Succeeded("delete_nodes")
    /\ Calls("removeNodes") = {4}
    /\ Cardinality(PoolMembers(pools)) = 1
    /\ Calls("deletePool") = {}

\* C12: in StingrayBalancer.delete_nodes an 'Unknown pool' fault of
\* disableNodes or of removeNodes never ends the call: delete_pool_if_empty
\* is the next thing called; after such a fault of disableNodes there is no
\* wait and no removeNodes; and the call returns normally unless the read or
\* the deletePool of delete_pool_if_empty fails with another fault.
C12_UnknownPoolIsSuccess ==
    StingrayDelete =>
        \A k \in Calls("disableNodes") \cup Calls("removeNodes") :
            trace[k].resp = "Unknown pool" =>
                /\ Len(trace) > k
                /\ trace[k + 1] = Event("delete_pool_if_empty", Pool, {})
                /\ fault # "Unknown pool"
                /\ pc \in {"cleanup_getNodes", "deletePool", "done"}
                /\ trace[k].call = "disableNodes" =>
                       Calls("sleep") \cup Calls("removeNodes") = {}
                /\ (Ended("delete_nodes") /\ outcome = "raised") =>
                       /\ Len(trace) > k + 1
                       /\ trace[Len(trace)].call \in {"getNodes", "deletePool"}
                       /\ trace[Len(trace)].resp = fault
                       /\ fault \in {"WebFault", "transport"}

\* C12 witness: the pool vanished before disableNodes, and the delete has
\* returned normally.
C12_Witness ==
    /\ StingrayDelete
    /\ Succeeded("delete_nodes")
    /\ Calls("disableNodes") = {2}
    /\ trace[2].resp = "Unknown pool"

\* The same for removeNodes: the pool vanished during the wait.
C12_WitnessRemove ==
    /\ StingrayDelete
    /\ Succeeded("delete_nodes")
    /\ Calls("removeNodes") = {4}
    /\ trace[4].resp = "Unknown pool"

StingrayGet == balancer = "stingray" /\ Ended("get_nodes")

\* C13: StingrayBalancer.get_nodes(P) makes one remote call, getNodes on the
\* pool named pool_prefix + P, and changes nothing; when the remote answers
\* 'Unknown pool' it returns the empty list without raising, and when the
\* pool exists and the call is served it returns the members of that pool,
\* each once.
C13_GetNodesResult ==
    StingrayGet =>
        /\ Len(trace) = 1
        /\ trace[1].call = "getNodes"
        /\ trace[1].target = pool_prefix \o Pool
        /\ pools = pre[2]
        /\ trace[1].resp = "Unknown pool" =>
               /\ (pool_prefix \o Pool) \notin DOMAIN pools
               /\ outcome = "ok"
               /\ ret = <<>>
        /\ trace[1].resp = "none" =>
               /\ outcome = "ok"
               /\ Range(ret) = pools[pool_prefix \o Pool]
               /\ Len(ret) = Cardinality(pools[pool_prefix \o Pool])

\* C13 witness: get_nodes has returned the two members of the prefixed pool
\* while a pool with the bare name holds something else.
C13_Witness ==
    /\ StingrayGet
    /\ outcome = "ok"
    /\ Len(ret) = 2
    /\ Pool \in DOMAIN pools
    /\ pools[Pool] # Range(ret)

\* The other case: get_nodes has returned the empty list for an unknown pool.
C13_WitnessUnknown ==
    /\ StingrayGet
    /\ outcome = "ok"
    /\ ret = <<>>
    /\ trace[1].resp = "Unknown pool"

StingrayDeletePool == balancer = "stingray" /\ Ended("delete_pool")

\* C14: StingrayBalancer.delete_pool(P) makes one remote call, deletePool on
\* the prefixed pool; when the remote answers 'Unknown pool' it returns
\* normally and the control plane is as before; when it returns normally
\* the pool is absent and no other pool has changed; called again right
\* after a delete_pool that returned normally, it finds the pool absent,
\* changes nothing, and returns normally unless a fault other than 'Unknown
\* pool' strikes.
C14_IdempotentDeletePool ==
    StingrayDeletePool =>
        /\ Len(trace) = 1
        /\ trace[1].call = "deletePool"
        /\ trace[1].target = pool_prefix \o Pool
        /\ trace[1].resp = "Unknown pool" =>
               outcome = "ok" /\ pools = pre[2]
        /\ outcome = "ok" =>
               /\ (pool_prefix \o Pool) \notin DOMAIN pools
               /\ \A n \in DOMAIN pre[2] \ {pool_prefix \o Pool} :
                      n \in DOMAIN pools /\ pools[n] = pre[2][n]
        /\ lastDeletePool =>
               /\ (pool_prefix \o Pool) \notin DOMAIN pre[2]
               /\ pools = pre[2]
               /\ trace[1].resp \in {"Unknown pool", "WebFault", "transport"}
               /\ outcome = "raised" => fault \in {"WebFault", "transport"}

\* C14 witness: the second of two delete_pool calls in a row has returned
\* normally.
C14_Witness ==
    /\ StingrayDeletePool
    /\ lastDeletePool
    /\ outcome = "ok"
    /\ trace[1].resp = "Unknown pool"

\* The faults of the control plane that are no 'Unknown pool' fault.
OtherFaults == {"WebFault", "transport"}

\* C15: on the Stingray backend a remote call that fails with a fault other
\* than 'Unknown pool' is the last thing the operation does: the operation
\* has ended by raising that very fault, with no result; and an operation
\* that raised did so with such a fault, the one its last remote call
\* answered.
C15_OtherFaultsPropagate ==
    balancer = "stingray" =>
        /\ \A i \in 1..Len(trace) :
               trace[i].resp \in OtherFaults =>
                   /\ i = Len(trace)
                   /\ pc = "done"
                   /\ outcome = "raised"
                   /\ fault = trace[i].resp
                   /\ ret = <<>>
        /\ outcome = "raised" =>
               /\ fault \in OtherFaults
               /\ trace[Len(trace)].resp = fault

\* C15 witness: a delete_nodes has raised the transport failure that struck
\* removeNodes, after disableNodes and the wait.
C15_Witness ==
    /\ StingrayDelete
    /\ Ended("delete_nodes")
    /\ outcome = "raised"
    /\ fault = "transport"
    /\ Calls("removeNodes") = {4}
    /\ Len(trace) = 4

\* C16, as stated: in add_nodes and delete_nodes of the SSH backend a remote
\* command that exits unsuccessfully is the last thing the call does, and
\* the call has raised.
C16_CommandFailureRaises ==
    (balancer = "ssh" /\ op \in {"add_nodes", "delete_nodes"}) =>
        \A i \in 1..Len(trace) :
            trace[i].resp \in FailedCommands =>
                /\ i = Len(trace)
                /\ pc = "done"
                /\ outcome = "raised"

\* What the code does instead: an add_nodes whose `mv` failed on one host of
\* several has returned normally, after going on to the hosts behind it,
\* and that host does not hold the set the call wrote.
C16_SilentFailure ==
    /\ balancer = "ssh"
    /\ Succeeded("add_nodes")
    /\ \E i \in Calls("set_host_nodes") :
          /\ trace[i].resp = "mv failed"
          /\ i < Len(trace) - 2
          /\ hostNodes[trace[i].target] # trace[i].nodes

\* The composite runs one of the operations it hands to _foreach_balancer.
ChainedForeach ==
    balancer = "chained" /\ op \in {"add_nodes", "delete_nodes", "delete_pool"}

\* The arguments the composite received for the operation in progress.
Received == IF op = "delete_pool" THEN <<Pool>> ELSE <<Pool, arg>>

\* C17: a ChainedBalancer.add_nodes, delete_nodes or delete_pool that
\* returns normally has called the same-named operation once on every child,
\* in the order of the list, with the arguments the composite received, and
\* every child has served it; at any moment of such a call the children
\* called so far are the first ones of the list, in order.
C17_FanOut ==
    ChainedForeach =>
        /\ \A i \in 1..Len(trace) :
               /\ trace[i].call = op
               /\ trace[i].target = i
               /\ trace[i].args = Received
        /\ Succeeded(op) =>
               /\ Len(trace) = Len(children)
               /\ \A i \in 1..Len(children) :
                      /\ trace[i] = ChildCall(op, i, Received, "none")
                      /\ children[i] =
                             ChildApply(op, preChildren[i], Received)

\* C17 witness: an add_nodes of one node has returned on a composite of two
\* children, one of which had no pool.
C17_Witness ==
    /\ balancer = "chained"
    /\ Succeeded("add_nodes")
    /\ Len(children) = 2
    /\ Cardinality(arg) = 1
    /\ preChildren[2] = <<>>
    /\ children[2] = <<arg>>

\* C18: a ChainedBalancer.get_nodes that returns has asked every child once,
\* in order; its result holds a node exactly when a child holds it, holds
\* each node once, and is in ascending order; no warning is emitted.
C18_SortedUnion ==
    (balancer = "chained" /\ Succeeded("get_nodes")) =>
        /\ Range(ret) = UNION {ChildMembers(children[i]) :
                                  i \in 1..Len(children)}
        /\ Len(ret) = Cardinality(Range(ret))
        /\ \A i, j \in 1..Len(ret) : i < j => ret[i] < ret[j]
        /\ Len(trace) = Len(children)
        /\ \A i \in 1..Len(trace) :
               trace[i] = ChildCall("get_nodes", i, <<Pool>>, "none")
        /\ children = preChildren

\* C18 witness: two children that disagree and share a node; the first one
\* listed its two nodes in descending order.
C18_Witness ==
    /\ balancer = "chained"
    /\ Succeeded("get_nodes")
    /\ Len(children) = 2
    /\ ChildMembers(children[1]) # ChildMembers(children[2])
    /\ ChildMembers(children[1]) \cap ChildMembers(children[2]) # {}
    /\ Len(acc) = 3
    /\ acc[1] > acc[2]
    /\ Len(ret) = 2

\* C19 as stated: when a child has raised, the operation has been invoked
\* on every child of the list by the time the failure reaches the caller.
C19_Original ==
    (ChainedForeach /\ Ended(op) /\ outcome = "raised") =>
        \A b \in 1..Len(children) :
            \E i \in 1..Len(trace) : trace[i].target = b

\* C19: when a child raises during ChainedBalancer.add_nodes, delete_nodes
\* or delete_pool, the call ends at once with that exception: the call of
\* the raising child is the last one made, and the children after it are
\* not invoked and hold what they held.
C19_RaiseEndsLoop ==
    ChainedForeach =>
        \A k \in 1..Len(trace) :
            trace[k].resp # "none" =>
                /\ k = Len(trace)
                /\ pc = "done"
                /\ outcome = "raised"
                /\ fault = trace[k].resp
                /\ \A b \in (k + 1)..Len(children) :
                       /\ children[b] = preChildren[b]
                       /\ \A i \in 1..Len(trace) : trace[i].target # b

\* C19 witness: the first of two children has raised, and the call has
\* ended without a call of the second.
C19_Witness ==
    /\ ChainedForeach
    /\ Ended(op)
    /\ outcome = "raised"
    /\ Len(children) = 2
    /\ Len(trace) = 1
    /\ preChildren[2] # ChildApply(op, preChildren[2], Received)

\* C20: when ChainedBalancer.add_nodes, delete_nodes or delete_pool has
\* raised, the exception is the one of the last child called, child k; every
\* child before k has served the call and holds what the operation made of
\* its pool; every call of the trace is the operation itself (nothing is
\* undone); and child k and the children after it hold what they held.
C20_NoRollback ==
    (ChainedForeach /\ Ended(op) /\ outcome = "raised") =>
        LET k == Len(trace)
        IN /\ k >= 1
           /\ trace[k] = ChildCall(op, k, Received, fault)
           /\ fault # "none"
           /\ \A i \in 1..(k - 1) :
                  /\ trace[i] = ChildCall(op, i, Received, "none")
                  /\ children[i] = ChildApply(op, preChildren[i], Received)
           /\ \A i \in k..Len(children) : children[i] = preChildren[i]

\* C20 witness: the second child has raised after the first one's pool was
\* changed by the call.
C20_Witness ==
    /\ ChainedForeach
    /\ Ended(op)
    /\ outcome = "raised"
    /\ Len(trace) = 2
    /\ children[1] # preChildren[1]

\* The two implementations of delete_pool_if_empty a Stingray balancer has:
\* its own and the default of Balancer.
DeleteIfEmptyOps == {"delete_pool_if_empty", "Balancer.delete_pool_if_empty"}

\* Whether the read of delete_pool_if_empty, the second entry of the trace,
\* returned no members.
ReadWasEmpty ==
    \/ trace[2].resp = "Unknown pool"
    \/ trace[2].resp = "none" /\ PoolMembers(pre[2]) = {}

\* C21: delete_pool_if_empty(P) on a Stingray balancer, in the override and
\* in the default of Balancer alike, reads the pool once and then calls
\* delete_pool exactly when the read returned no members; the calls made and
\* the control plane left behind are the same function of the state found
\* and of the remote's answers for both implementations.
C21_ReadThenConditionallyDelete ==
    (balancer = "stingray" /\ op \in DeleteIfEmptyOps /\ pc = "done") =>
        /\ trace[1] = Event("delete_pool_if_empty", Pool, {})
        /\ Calls("getNodes") = {2}
        /\ trace[2].target = pool_prefix \o Pool
        /\ trace[2].resp \in OtherFaults =>
               Len(trace) = 2 /\ outcome = "raised" /\ pools = pre[2]
        /\ trace[2].resp \notin OtherFaults =>
               /\ Calls("deletePool") = IF ReadWasEmpty THEN {3} ELSE {}
               /\ Len(trace) = IF ReadWasEmpty THEN 3 ELSE 2
               /\ ~ReadWasEmpty => outcome = "ok" /\ pools = pre[2]
               /\ ReadWasEmpty =>
                      /\ trace[3].target = pool_prefix \o Pool
                      /\ outcome = IF trace[3].resp \in OtherFaults
                                   THEN "raised" ELSE "ok"
                      /\ pools = IF trace[3].resp = "none"
                                 THEN [n \in DOMAIN pre[2]
                                              \ {pool_prefix \o Pool} |->
                                          pre[2][n]]
                                 ELSE pre[2]

\* C21 witness: the default has deleted a pool that was there without
\* members.
C21_Witness ==
    /\ balancer = "stingray"
    /\ Succeeded("Balancer.delete_pool_if_empty")
    /\ (pool_prefix \o Pool) \in DOMAIN pre[2]
    /\ (pool_prefix \o Pool) \notin DOMAIN pools

\* The same for the override, and the other case: the override has returned
\* from a pool with members without calling delete_pool.
C21_WitnessOverride ==
    /\ balancer = "stingray"
    /\ Succeeded("delete_pool_if_empty")
    /\ (pool_prefix \o Pool) \in DOMAIN pre[2]
    /\ (pool_prefix \o Pool) \notin DOMAIN pools

C21_WitnessKept ==
    /\ balancer = "stingray"
    /\ Succeeded("delete_pool_if_empty")
    /\ PoolMembers(pools) # {}
    /\ Len(trace) = 2

\* The operations of the remote control plane.
RemoteCalls ==
    {"addNodes", "addPool", "disableNodes", "removeNodes", "getNodes",
     "deletePool"}

ConstructorEnded == pc = "done" /\ op = "__init__"

\* A child entry of config['BALANCERS'] without a BACKEND that resolves.
BadChildren ==
    IF balancer = "chained" /\ "BALANCERS" \in DOMAIN config
    THEN {i \in 1..Len(config["BALANCERS"]) :
             \/ "BACKEND" \notin DOMAIN config["BALANCERS"][i]
             \/ config["BALANCERS"][i]["BACKEND"] \notin Importable}
    ELSE {}

\* C23 as stated: each backend raises at construction when a required
\* parameter is missing, the SSH backend's credential, host list and staging
\* directory included.
C23_Original ==
    ConstructorEnded =>
        /\ (balancer = "stingray"
              /\ ~({"URL", "USER", "PASSWORD"} \subseteq DOMAIN config)) =>
               outcome = "raised"
        /\ (balancer = "chained"
              /\ ("BALANCERS" \notin DOMAIN config \/ BadChildren # {})) =>
               outcome = "raised"
        /\ (balancer = "ssh" /\ ~(SshKeys \subseteq DOMAIN config)) =>
               outcome = "raised"

\* C23: construction makes no remote call.  A StingrayBalancer without URL,
\* USER or PASSWORD raises KeyError; a ChainedBalancer without BALANCERS
\* raises KeyError, and with a child that lacks BACKEND or names no class it
\* raises KeyError or ImportError unless a child before it failed first.  An
\* SshBasedBalancer never raises for a missing key: it takes ['localhost']
\* for hosts, /tmp for tmpdir and settings.DEPLOY_USER and
\* settings.DEPLOY_PASSWORD for user and password; it raises exactly when
\* the settings lack one of these two names.
C23_ConstructionFailures ==
    ConstructorEnded =>
        /\ trace = <<>>
        /\ (balancer = "stingray"
              /\ ~({"URL", "USER", "PASSWORD"} \subseteq DOMAIN config)) =>
               outcome = "raised" /\ fault = "KeyError"
        /\ (balancer = "chained" /\ "BALANCERS" \notin DOMAIN config) =>
               outcome = "raised" /\ fault = "KeyError"
        /\ (balancer = "chained" /\ BadChildren # {}) =>
               outcome = "raised" /\ fault \in {"KeyError", "ImportError"}
        /\ balancer = "ssh" =>
               /\ outcome = "raised" <=> ~(DeploySettings \subseteq settings)
               /\ outcome = "raised" => fault = "AttributeError"
               /\ outcome = "ok" =>
                      /\ "hosts" \notin DOMAIN config =>
                             ret[1].hosts = "['localhost']"
                      /\ "tmpdir" \notin DOMAIN config =>
                             ret[1].tmpdir = "/tmp"
                      /\ "user" \notin DOMAIN config =>
                             ret[1].user = "settings.DEPLOY_USER"
                      /\ "password" \notin DOMAIN config =>
                             ret[1].password = "settings.DEPLOY_PASSWORD"

\* C23 witness: an SshBasedBalancer has been built from an empty
\* configuration.
C23_Witness ==
    /\ ConstructorEnded
    /\ balancer = "ssh"
    /\ config = <<>>
    /\ outcome = "ok"

\* The other cases: a StingrayBalancer without URL has raised, and so has a
\* ChainedBalancer whose second child names no class.
C23_WitnessStingray ==
    /\ ConstructorEnded
    /\ balancer = "stingray"
    /\ DOMAIN config = StingrayKeys \ {"URL"}
    /\ outcome = "raised"

C23_WitnessChained ==
    /\ ConstructorEnded
    /\ balancer = "chained"
    /\ BadChildren = {2}
    /\ fault = "ImportError"

C25_RetryAtMostN ==
    (retry # <<>> /\ retry.n >= 1) =>
        LET made == Len(retry.calls)
        IN /\ made <= retry.n
           /\ \A k \in 1..made :
                  (k < made \/ retry.pc = "for") =>
                      retry.calls[k] \in ExceptionClasses
           /\ retry.pc = "for" => retry.i = made /\ made < retry.n
           /\ Len(retry.slept) = retry.i
           /\ \A k \in 1..Len(retry.slept) : retry.slept[k] = Pow2(k - 1)
           /\ retry.pc = "returned" =>
                  /\ retry.calls[made] \in ReturnValues
                  /\ retry.result = <<retry.calls[made], made>>
           /\ retry.pc = "raised" =>
                  /\ retry.result = <<retry.calls[made], made>>
                  /\ retry.calls[made] \notin ReturnValues
                  /\ retry.calls[made] \in ExceptionClasses =>
                         made = retry.n
           /\ retry.result # <<"RuntimeError", 0>>

\* C25 witness: _retry(3, f) has raised what the third call of f raised,
\* after waits of 1 and 2 seconds.
C25_Witness ==
    /\ retry # <<>>
    /\ retry.n = 3
    /\ retry.pc = "raised"
    /\ retry.result = <<"IOError", 3>>
    /\ retry.slept = <<1, 2>>
    /\ retry.calls[1] = "Fault"

\* The other case: _retry(3, f) has returned the value of the second call.
C25_WitnessReturned ==
    /\ retry # <<>>
    /\ retry.n = 3
    /\ retry.pc = "returned"
    /\ retry.result = <<"v2", 2>>

\* A get_proc call has ended.
GetProcEnded == theHost # <<>> /\ theHost.pc = "done"

\* The call looked in the cache and found the name there.
CacheHit ==
    /\ theHost.check_cache
    /\ theHost.redis
    /\ theHost.name \in DOMAIN theHost.cache0

\* The call looked in the cache and did not find the name there.
CacheMiss ==
    /\ theHost.check_cache
    /\ theHost.redis
    /\ theHost.name \notin DOMAIN theHost.cache0

C26_WitnessRefreshed ==
    /\ GetProcEnded
    /\ CacheMiss
    /\ theHost.reported
    /\ theHost.attempts = 2
    /\ DOMAIN theHost.cache0 # {}
    /\ theHost.cache0 # theHost.cache
    /\ theHost.result = Proc(theHost.name, "reported")

C26_WitnessHit ==
    /\ GetProcEnded
    /\ CacheHit
    /\ theHost.name \notin theHost.procs
    /\ theHost.result = Proc(theHost.name, "cached")

\* C27 for the processes that use the copy in `copies`: a lock_file call
\* with block=False never waits and ends in SystemExit only if it found the
\* lock held; a call with block=True never ends in SystemExit, and returns
\* holding the lock; at most one process holds the lock.
LockContract(copies) ==
    (lock # <<>> /\ lock.copy \in copies) =>
        /\ \A p \in Processes :
              LET c == lock.proc[p]
              IN /\ ~c.block => ~c.waited
                 /\ c.block => c.result # "SystemExit"
                 /\ c.result = "returned" => c.pc \in {"locked", "closed"}
        /\ Cardinality(Holders) <= 1

\* C27 as stated: the contract holds for both copies of lock_file.
C27_BothCopies == LockContract(Copies)

\* What holds instead: the copy in src/vr/common/utils.py keeps the
\* contract, and both copies keep the lock exclusive.
C27_FirstCopy ==
    /\ LockContract({"vr.common.utils"})
    /\ lock # <<>> => Cardinality(Holders) <= 1

\* The second copy does the opposite: a block=False call has waited there
\* while another process held the lock.
C27_SecondCopyWaits ==
    /\ lock # <<>>
    /\ lock.copy = "common.vr.common.utils"
    /\ \E p \in Processes :
          /\ ~lock.proc[p].block
          /\ lock.proc[p].waited
          /\ lock.proc[p].pc = "locked"

\* And a block=True call has ended in SystemExit there.
C27_SecondCopyExits ==
    /\ lock # <<>>
    /\ lock.copy = "common.vr.common.utils"
    /\ \E p \in Processes :
          /\ lock.proc[p].block
          /\ lock.proc[p].result = "SystemExit"

\* An update call has returned.
Updated == repo # <<>> /\ repo.pc = "done" /\ repo.result = "returned"

\* C28: update clones exactly when the folder did not exist, and after a
\* successful update(rev) the folder exists and Repo.version is rev when rev
\* names a commit, and the upstream's head when rev is the default branch,
\* whatever was checked out before.
C28_UpdateReachesRev ==
    Updated =>
        /\ repo.cloned = ~repo.existed
        /\ repo.exists
        /\ repo.arg \in Commits => Version(repo) = repo.arg
        /\ repo.rev \in Commits => Version(repo) = repo.rev
        /\ repo.rev \notin Commits => Version(repo) = repo.upstream

\* C28 witness: update(new) had returned, and update(old) has now returned
\* with the working copy, which was at new, at old.
C28_Witness ==
    /\ Updated
    /\ repo.last = "new"
    /\ repo.before = "new"
    /\ repo.arg = "old"
    /\ ~repo.cloned
    /\ Version(repo) = "old"

\* The other case: the folder was missing and update(old) cloned first.
C28_WitnessClone ==
    /\ Updated
    /\ repo.cloned
    /\ repo.upstream = "new"
    /\ repo.arg = "old"
    /\ Version(repo) = "old"

\* An add_nodes or delete_nodes call of the SSH backend, running or ended.
SshMutation ==
    /\ balancer = "ssh"
    /\ op \in {"add_nodes", "delete_nodes"}
    /\ pc # "idle"

\* The writes and the reloads of the call so far, in order.
Writes == SelectSeq(trace, LAMBDA e : e.call = "set_host_nodes")
Reloads == SelectSeq(trace, LAMBDA e : e.call = "reload_config")
WritesAndReloads ==
    SelectSeq(trace, LAMBDA e : e.call \in {"set_host_nodes", "reload_config"})

\* C29: during add_nodes and delete_nodes of the SSH backend the writes and
\* reloads alternate, the j-th pair on the j-th configured host: a write is
\* followed at once by the reload of the same host, a reload follows the
\* write of its host, nothing is done to a later host in between (for
\* delete_nodes not even its read; add_nodes has read every host before its
\* first write and reads none after), and a call that returns has written
\* and reloaded every configured host exactly once.
C29_SequentialPerHost ==
    SshMutation =>
        /\ \A j \in 1..Len(WritesAndReloads) :
              /\ WritesAndReloads[j].call =
                     IF j % 2 = 1 THEN "set_host_nodes" ELSE "reload_config"
              /\ WritesAndReloads[j].target = hosts[(j + 1) \div 2]
        /\ \A i \in 1..Len(trace) :
              /\ (trace[i].call = "set_host_nodes" /\ i < Len(trace)) =>
                     /\ trace[i + 1].call = "reload_config"
                     /\ trace[i + 1].target = trace[i].target
              /\ trace[i].call = "reload_config" =>
                     /\ i > 1
                     /\ trace[i - 1].call = "set_host_nodes"
                     /\ trace[i - 1].target = trace[i].target
              /\ (op = "add_nodes" /\ trace[i].call = "get_host_nodes") =>
                     \A k \in 1..i : trace[k].call # "set_host_nodes"
              /\ op = "delete_nodes" =>
                     /\ trace[i].target = hosts[(i + 2) \div 3]
                     /\ trace[i].call =
                            CASE i % 3 = 1 -> "get_host_nodes"
                              [] i % 3 = 2 -> "set_host_nodes"
                              [] OTHER -> "reload_config"
        /\ (pc = "done" /\ outcome = "ok") =>
               /\ Len(Writes) = Len(hosts)
               /\ Len(Reloads) = Len(hosts)
               /\ \A h \in Range(hosts) :
                      /\ Cardinality({j \in 1..Len(Writes) :
                                          Writes[j].target = h}) = 1
                      /\ Cardinality({j \in 1..Len(Reloads) :
                                          Reloads[j].target = h}) = 1

\* C29 witness: a delete_nodes over three hosts has returned after three
\* writes and three reloads.
C29_Witness ==
    /\ SshMutation
    /\ op = "delete_nodes"
    /\ pc = "done"
    /\ outcome = "ok"
    /\ Len(hosts) = 3
    /\ Len(WritesAndReloads) = 6

\* The same for add_nodes, whose hosts disagreed when it read them.
C29_WitnessAdd ==
    /\ SshMutation
    /\ op = "add_nodes"
    /\ pc = "done"
    /\ outcome = "ok"
    /\ Len(hosts) = 3
    /\ Len(WritesAndReloads) = 6
    /\ Calls("warn") # {}

\* The set a write of the call puts on host h.
NewlyWritten(h) ==
    IF op = "add_nodes" THEN HostUnion(pre[1]) \cup arg ELSE pre[1][h] \ arg

\* C30: when an add_nodes or delete_nodes of the SSH backend has raised, it
\* raised at host k, the host after the last one reloaded: no write or
\* reload follows the failure, every host before k has been written and
\* reloaded and holds its newly written set, every host after k holds
\* exactly what it held before the call and has been neither written nor
\* reloaded, and nothing is put back: when it was the reload of k that
\* failed, k holds its newly written set too.
C30_PartialFailure ==
    (SshMutation /\ pc = "done" /\ outcome = "raised") =>
        LET w == Len(Writes)
            k == Len(Reloads) + 1
        IN /\ k <= Len(hosts)
           /\ w \in {k - 1, k}
           /\ \A j \in 1..w : Writes[j].target = hosts[j]
           /\ \A j \in 1..Len(hosts) :
                  /\ j < k => hostNodes[hosts[j]] = NewlyWritten(hosts[j])
                  /\ (j = k /\ w = k) =>
                         hostNodes[hosts[j]] = NewlyWritten(hosts[j])
                  /\ j > k =>
                         /\ hostNodes[hosts[j]] = pre[1][hosts[j]]
                         /\ \A i \in 1..Len(trace) :
                                trace[i].target = hosts[j] =>
                                    trace[i].call \in
                                        {"get_host_nodes", "warn"}

\* C30 witness: an add_nodes over three hosts has raised at the reload of
\* the second; the first two hold the new set and the third, which held
\* something else, is as it was.
C30_Witness ==
    /\ SshMutation
    /\ op = "add_nodes"
    /\ pc = "done"
    /\ outcome = "raised"
    /\ Len(hosts) = 3
    /\ Len(Writes) = 2
    /\ Len(Reloads) = 1
    /\ hostNodes[hosts[1]] # pre[1][hosts[1]]
    /\ hostNodes[hosts[2]] = hostNodes[hosts[1]]
    /\ hostNodes[hosts[3]] # hostNodes[hosts[1]]

\* The same for a delete_nodes that raised at the write of the second host.
C30_WitnessWrite ==
    /\ SshMutation
    /\ op = "delete_nodes"
    /\ pc = "done"
    /\ outcome = "raised"
    /\ Len(hosts) = 3
    /\ Len(Writes) = 1
    /\ Len(Reloads) = 1
    /\ trace[Len(trace)].call = "get_host_nodes"
    /\ hostNodes[hosts[1]] # pre[1][hosts[1]]
    /\ hostNodes[hosts[2]] \cap arg # {}

\* The positions in the trace where disableNodes or removeNodes was answered
\* with a fault other than 'Unknown pool'.
FailedRemovals ==
    {i \in 1..Len(trace) :
        /\ trace[i].call \in {"disableNodes", "removeNodes"}
        /\ trace[i].resp \in OtherFaults}

\* C31: once disableNodes or removeNodes has answered a
\* StingrayBalancer.delete_nodes with a fault other than 'Unknown pool', the
\* call has raised that fault and made no further call: the trace holds no
\* delete_pool_if_empty and no deletePool, and the pool exists, with the
\* members it had (less those a removeNodes had removed: none).
C31_NoDestroyOnFailedDelete ==
    (StingrayDelete /\ pc # "idle" /\ FailedRemovals # {}) =>
        /\ FailedRemovals = {Len(trace)}
        /\ pc = "done"
        /\ outcome = "raised"
        /\ fault = trace[Len(trace)].resp
        /\ \A i \in 1..Len(trace) :
              trace[i].call \notin {"delete_pool_if_empty", "deletePool"}
        /\ pool_prefix \o Pool \in DOMAIN pools
        /\ pools = pre[2]

\* C31 witness: removeNodes answered with another WebFault after the nodes
\* had been disabled and the wait was over; the call has raised and the
\* pool, all of whose members were to go, is still there.
C31_Witness ==
    /\ StingrayDelete
    /\ pc = "done"
    /\ outcome = "raised"
    /\ fault = "WebFault"
    /\ trace[Len(trace)].call = "removeNodes"
    /\ Calls("sleep") # {}
    /\ pool_prefix \o Pool \in DOMAIN pools
    /\ pools[pool_prefix \o Pool] = nodeset
    /\ nodeset # {}

\* The answer the run got at the step named, or "not taken".
StepAnswer(step) ==
    IF \E i \in 1..Len(staging.steps) : staging.steps[i][1] = step
    THEN staging.steps[CHOOSE i \in 1..Len(staging.steps) :
                           staging.steps[i][1] = step][2]
    ELSE "not taken"

\* The steps of _write_file come in the order of the code, the production
\* path is changed by the mv alone, and what a mv that worked put there is
\* the staging file with the whole of the new contents and mode 0644.
StagedReplace ==
    /\ \A i \in 1..Len(staging.steps) :
          staging.steps[i][1] = WriteFileSteps[i]
    /\ StepAnswer("mv") # "exit 0" =>
          staging.prod \in {<<>>, <<File("old", "0644", "root")>>}
    /\ StepAnswer("mv") = "exit 0" =>
          /\ staging.prod # <<>>
          /\ staging.prod[1].contents = staging.contents
          /\ staging.prod[1].mode = "0644"
          /\ staging.name \notin DOMAIN staging.tmp
    /\ StepAnswer("chown") = "exit 0" => staging.prod[1].owner = "root"

\* C32 as stated: _write_file stages, then moves, then chowns, in that
\* order, the production path is changed by the mv alone, and after a call
\* that returned the production path holds exactly the new contents.
C32_WriteFileReplaces ==
    staging # <<>> =>
        /\ StagedReplace
        /\ staging.result = "returned" =>
               /\ staging.prod # <<>>
               /\ staging.prod[1].contents = staging.contents

\* What holds instead: the same, for the calls whose mv exited with 0; a
\* call returns whatever the exit status of its mv and its chown.
C32_WhenMvSucceeds ==
    staging # <<>> =>
        /\ StagedReplace
        /\ staging.result = "returned" =>
               /\ StepAnswer("mv") \in {"exit 0", "exit 1"}
               /\ StepAnswer("chown") \in {"exit 0", "exit 1"}
               /\ StepAnswer("mv") = "exit 0" =>
                      staging.prod[1].contents = staging.contents

\* The divergence: a call has returned after a mv that exited with 1; the
\* production file has its old contents and the new ones lie in the
\* staging directory.
C32_SilentMv ==
    /\ staging # <<>>
    /\ staging.result = "returned"
    /\ StepAnswer("mv") = "exit 1"
    /\ staging.prod = <<File("old", "0644", "root")>>
    /\ staging.tmp[staging.name].contents = "new"

\* The regular case: a call has returned after a mv and a chown that
\* worked, over a staging name that was taken.
C32_Replaced ==
    /\ staging # <<>>
    /\ staging.result = "returned"
    /\ staging.prod = <<File("new", "0644", "root")>>
    /\ DOMAIN staging.tmp # {}

\* Both add_nodes calls have completed.
BothDone == racers # <<>> /\ \A c \in Callers : racers.call[c].pc = "done"

\* C33 as stated: once both calls have completed, every host's set holds
\* the node of the one and the node of the other.
C33_ConcurrentAddsConverge ==
    BothDone =>
        \A h \in Range(racers.hosts) :
            RaceNodes["A"] \cup RaceNodes["B"] \subseteq racers.files[h]

\* C33, amended: the last writer wins, host by host.  Once both calls have
\* completed every host holds the set one of the two calls wrote, which is
\* what that call had read plus its own node; so every host has the node
\* of at least one caller, and it has both when one call began after the
\* other had ended.
C33_LastWriterWins ==
    BothDone =>
        /\ \A c \in Callers :
              RaceNodes[c] \subseteq racers.call[c].nodeset
        /\ \A h \in Range(racers.hosts) :
              \E c \in Callers : racers.files[h] = racers.call[c].nodeset
        /\ (\E c \in Callers : racers.call[c].after) =>
              \A h \in Range(racers.hosts) :
                  RaceNodes["A"] \cup RaceNodes["B"] \subseteq racers.files[h]

\* C33 witness: both calls have completed on an empty pool and no host has
\* the node of caller A.
C33_Witness ==
    /\ BothDone
    /\ Len(racers.hosts) >= 2
    /\ \A h \in Range(racers.hosts) : racers.files[h] = RaceNodes["B"]

\* Interleaved writes: the hosts end in disagreement, each node on one host.
C33_WitnessSplit ==
    /\ BothDone
    /\ \E g, h \in Range(racers.hosts) :
          /\ racers.files[g] = RaceNodes["A"]
          /\ racers.files[h] = RaceNodes["B"]

\* One call after the other: both nodes everywhere.
C33_WitnessSerial ==
    /\ BothDone
    /\ racers.call["B"].after
    /\ Len(racers.hosts) >= 2
    /\ \A h \in Range(racers.hosts) :
          racers.files[h] = RaceNodes["A"] \cup RaceNodes["B"]

\* The deletePool call of the balancer takes effect in this step: the pool
\* is there before it and gone after it.
DeletePoolTakesEffect ==
    /\ pc = "deletePool"
    /\ pool_prefix \o Pool \in DOMAIN pools
    /\ pool_prefix \o Pool \notin DOMAIN pools'

\* C34 as stated: whenever the deletePool of a delete_pool_if_empty (called
\* directly or at the end of delete_nodes) takes effect, the pool has no
\* members, also when another caller's add_nodes runs at the same time.
C34_DeletesOnlyEmptyPool ==
    [][DeletePoolTakesEffect => pools[pool_prefix \o Pool] = {}]_vars

\* C34, amended: the pool was empty or unknown when delete_pool_if_empty
\* read it, not necessarily when the deletePool takes effect: the members
\* it has then are exactly the nodes another caller's add_nodes has added,
\* successfully, since the read.
C34_EmptyWhenRead ==
    [][DeletePoolTakesEffect =>
          \/ pools[pool_prefix \o Pool] = {}
          \/ /\ rival.result = "ok"
             /\ pools[pool_prefix \o Pool] = rival.nodes]_vars

\* C34 witness: the other caller's add_nodes has returned normally, the
\* delete_pool_if_empty has then deleted the pool, and the nodes are gone
\* with it.
C34_Witness ==
    /\ rival # <<>>
    /\ rival.result = "ok"
    /\ op = "delete_pool_if_empty"
    /\ pc = "done"
    /\ outcome = "ok"
    /\ trace[Len(trace)].call = "deletePool"
    /\ trace[Len(trace)].resp = "none"
    /\ pool_prefix \o Pool \notin DOMAIN pools

\* The same at the end of a delete_nodes that had emptied the pool.
C34_WitnessDeleteNodes ==
    /\ rival # <<>>
    /\ rival.result = "ok"
    /\ op = "delete_nodes"
    /\ Calls("removeNodes") # {}
    /\ pc = "done"
    /\ outcome = "ok"
    /\ trace[Len(trace)].call = "deletePool"
    /\ trace[Len(trace)].resp = "none"
    /\ pool_prefix \o Pool \notin DOMAIN pools
    /\ rival.nodes \cap arg = {}

\* C35: when the addPool of a StingrayBalancer.add_nodes is answered with a
\* fault, the call has ended by raising that fault; it has made two remote
\* calls, the addNodes that was answered 'Unknown pool' and this addPool,
\* neither of which was served, so the call has added nothing.
C35_AddPoolFaultPropagates ==
    (StingrayAdd /\ pc # "idle" /\
     \E k \in Calls("addPool") : trace[k].resp # "none") =>
        /\ Len(trace) = 2
        /\ trace[1].call = "addNodes"
        /\ trace[1].resp = "Unknown pool"
        /\ trace[2].call = "addPool"
        /\ trace[2].nodes = arg
        /\ pc = "done"
        /\ outcome = "raised"
        /\ fault = trace[2].resp

\* C35 witness: the pool was unknown to addNodes, another client created
\* it without the nodes given, addPool was refused, and add_nodes has
\* raised with the nodes not in the pool.
C35_Witness ==
    /\ StingrayAdd
    /\ pc = "done"
    /\ outcome = "raised"
    /\ fault = "WebFault"
    /\ Len(trace) = 2
    /\ trace[2].call = "addPool"
    /\ pool_prefix \o Pool \notin DOMAIN pre[2]
    /\ pool_prefix \o Pool \in DOMAIN pools
    /\ arg # {}
    /\ arg \cap pools[pool_prefix \o Pool] = {}

\* C36: a StingrayBalancer.delete_nodes(P, N) whose getNodes was served for
\* a pool that exists and holds none of N (no members at all, or others)
\* has returned after that one remote call: no disableNodes, no
\* delete_pool_if_empty, no deletePool; the pool exists as it was, empty
\* if it was empty.
C36_EmptyPoolSurvivesDelete ==
    (/\ StingrayDelete
     /\ pc # "idle"
     /\ pool_prefix \o Pool \in DOMAIN pre[2]
     /\ pre[2][pool_prefix \o Pool] \cap arg = {}
     /\ trace # <<>>
     /\ trace[1].resp = "none") =>
        /\ Succeeded("delete_nodes")
        /\ Len(trace) = 1
        /\ trace[1].call = "getNodes"
        /\ pool_prefix \o Pool \in DOMAIN pools
        /\ pools = pre[2]

\* C36 witness: delete_nodes with a node given has returned on a pool that
\* had no members, and the empty pool is still there.
C36_Witness ==
    /\ StingrayDelete
    /\ Succeeded("delete_nodes")
    /\ arg # {}
    /\ pool_prefix \o Pool \in DOMAIN pre[2]
    /\ pre[2][pool_prefix \o Pool] = {}
    /\ pool_prefix \o Pool \in DOMAIN pools
    /\ pools[pool_prefix \o Pool] = {}

\* _get_and_cache_procs has returned in the get_proc call.
GotProcs == theHost # <<>> /\ theHost.pc \in {"lookup", "done"} /\
            theHost.attempts > 0

\* C37: when _get_and_cache_procs has returned after an attempt of the RPC
\* that answered, on a Host with Redis the hash holds exactly the reported
\* procs, each as reported, and its expiry has been set anew; when it has
\* returned after SUPERVISOR_RPC_N_RETRIES attempts that all raised, it has
\* returned an empty dict (the call goes on to the lookup) and the hash and
\* its expiry are as they were.
C37_CacheConsistency ==
    GotProcs =>
        /\ (theHost.reported /\ theHost.redis) =>
               /\ theHost.cache = [n \in theHost.procs |-> "reported"]
               /\ theHost.procs_dict = theHost.cache
               /\ theHost.procs # {} => theHost.ttl = "cache_lifetime"
        /\ ~theHost.reported =>
               /\ theHost.attempts = SUPERVISOR_RPC_N_RETRIES
               /\ theHost.procs_dict = <<>>
               /\ theHost.result \in {<<>>, <<"raised", "ProcError">>}
               /\ theHost.cache = theHost.cache0
               /\ theHost.ttl = theHost.ttl0

\* C37 witness: the refresh has dropped the entry of a process that is no
\* longer reported, set the one that is, and set the expiry anew.
C37_Witness ==
    /\ GotProcs
    /\ theHost.reported
    /\ theHost.redis
    /\ theHost.cache0 = [n \in {"web"} |-> "cached"]
    /\ theHost.cache = [n \in {"worker"} |-> "reported"]
    /\ theHost.ttl0 = "running"
    /\ theHost.ttl = "cache_lifetime"

\* The other case: every attempt raised and the hash is as it was.
C37_WitnessFailed ==
    /\ GotProcs
    /\ ~theHost.reported
    /\ theHost.pc = "lookup"
    /\ theHost.redis
    /\ theHost.procs # {}
    /\ theHost.cache = [n \in {"web"} |-> "cached"]
    /\ theHost.ttl = "running"

\* A call of start, stop or restart has ended.
ProcEnded == proc # <<>> /\ proc.pc = "done"

\* The answer to the last RPC of the call.
LastAnswer == proc.rpcs[Len(proc.rpcs)][2]

\* C38: start returns normally when startProcess answered with a result or
\* with the fault ALREADY_STARTED and raises the very answer otherwise; stop
\* returns normally when stopProcess answered with a result or with the
\* fault NOT_RUNNING and raises the very answer otherwise; restart calls
\* stopProcess first and startProcess second, does not call startProcess
\* when stop raised, and ends as its start does when stop returned.
C38_StartStopRestart ==
    ProcEnded =>
        /\ proc.op = "start" =>
               /\ Len(proc.rpcs) = 1 /\ proc.rpcs[1][1] = "startProcess"
               /\ proc.result =
                    IF LastAnswer \in {Answered, Fault("ALREADY_STARTED")}
                    THEN <<"returned">> ELSE <<"raised", LastAnswer>>
        /\ proc.op = "stop" =>
               /\ Len(proc.rpcs) = 1 /\ proc.rpcs[1][1] = "stopProcess"
               /\ proc.result =
                    IF LastAnswer \in {Answered, Fault("NOT_RUNNING")}
                    THEN <<"returned">> ELSE <<"raised", LastAnswer>>
        /\ proc.op = "restart" =>
               /\ proc.rpcs[1][1] = "stopProcess"
               /\ IF proc.rpcs[1][2] \in {Answered, Fault("NOT_RUNNING")}
                  THEN /\ Len(proc.rpcs) = 2
                       /\ proc.rpcs[2][1] = "startProcess"
                       /\ proc.result =
                            IF LastAnswer \in
                                 {Answered, Fault("ALREADY_STARTED")}
                            THEN <<"returned">>
                            ELSE <<"raised", LastAnswer>>
                  ELSE /\ Len(proc.rpcs) = 1
                       /\ proc.result = <<"raised", proc.rpcs[1][2]>>

\* C38 witness: a start of a running process was answered ALREADY_STARTED
\* and returned.
C38_Witness ==
    /\ ProcEnded
    /\ proc.op = "start"
    /\ LastAnswer = Fault("ALREADY_STARTED")
    /\ proc.running
    /\ proc.result = <<"returned">>

\* A stop of a process that does not run was answered NOT_RUNNING and
\* returned.
C38_WitnessStop ==
    /\ ProcEnded
    /\ proc.op = "stop"
    /\ LastAnswer = Fault("NOT_RUNNING")
    /\ proc.result = <<"returned">>

\* A restart whose stop raised made no call of startProcess.
C38_WitnessRestartStopRaised ==
    /\ ProcEnded
    /\ proc.op = "restart"
    /\ proc.rpcs = <<(<<"stopProcess", Fault("FAILED")>>)>>
    /\ proc.result = <<"raised", Fault("FAILED")>>

\* A restart stopped the process and started it again.
C38_WitnessRestart ==
    /\ ProcEnded
    /\ proc.op = "restart"
    /\ proc.rpcs = <<(<<"stopProcess", Answered>>),
                     (<<"startProcess", Answered>>)>>
    /\ proc.result = <<"returned">>
    /\ proc.running

\* The objects of the whole chain, in page order and within-page order.
AllObjects == [k \in 1..ObjectsBefore(query.sizes, Len(query.sizes) + 1) |-> k]

\* What a QueryResult has yielded, loaded and raised so far is in order:
\* nothing is loaded before the first next(); the pages are loaded one by
\* one in chain order; what has been yielded is the objects of the pages
\* before the current one and the first `index` of the current one, so a
\* page is loaded only when the pages before it are exhausted; and
\* StopIteration has been raised only with all objects yielded, the last
\* page current and exhausted.
IterationInOrder ==
    query # <<>> =>
        /\ query.doc = <<>> <=> query.loads = <<>>
        /\ (query.pc = "idle" /\ query.yielded = <<>>) => query.loads = <<>>
        /\ \E n \in 0..Len(query.sizes) :
              query.loads = [i \in 1..n |-> i]
        /\ query.doc # <<>> =>
              /\ query.doc = Page(query.sizes, Len(query.loads))
              /\ query.index <= Len(query.doc.objects)
              /\ query.yielded =
                    SubSeq(AllObjects, 1,
                           ObjectsBefore(query.sizes, query.doc.page) +
                           query.index)
        /\ query.doc = <<>> => query.yielded = <<>>
        /\ query.stops > 0 =>
              /\ query.yielded = AllObjects
              /\ query.doc # <<>>
              /\ query.doc.next = 0
              /\ query.index = Len(query.doc.objects)

\* C39: iterating a QueryResult loads the first page on the first next(),
\* loads each further page only when the objects of the page before it are
\* exhausted, yields the objects of the chain one by one in page order and
\* within-page order, raises StopIteration only with all of them yielded and
\* the last page exhausted, and, for every finite chain, does raise it.
C39_IterationYieldsAll ==
    /\ []IterationInOrder
    /\ <>(query # <<>> /\ query.pc = "stopped")

\* C39 witness: a chain of three pages whose second page is empty has been
\* iterated to StopIteration through an HTTP error.
C39_Witness ==
    /\ query # <<>>
    /\ query.pc = "stopped"
    /\ Len(query.sizes) = 3
    /\ query.sizes[1] = 2 /\ query.sizes[2] = 0 /\ query.sizes[3] = 1
    /\ query.yielded = <<1, 2, 3>>
    /\ query.loads = <<1, 2, 3>>
    /\ query.errors = 1

\* The first page is not loaded before the first next().
C39_WitnessLazy ==
    /\ query # <<>>
    /\ query.pc = "next"
    /\ query.loads = <<>>
    /\ query.yielded = <<>>

====
